---------------------------- MODULE Spec2Model ----------------------------
(***************************************************************************)
(* A state-machine model of the recommendation engine, the catalog cache   *)
(* (Track Store, Popularity Feed) and the per-user activity stores of      *)
(* src/app.py.                                                             *)
(*                                                                         *)
(* JSON documents are modelled by their content: links.json is `links`,    *)
(* popular.json is `popular`, data/Users/<u>/<u>.json is history[u] and    *)
(* data/Users/<u>/<u>likedandplaylist.json is likes[u] and                 *)
(* admin_config.json is admin_config.  A handler is one atomic action,     *)
(* except where threads that share the Track Store file are followed       *)
(* from one file access to the next (calls, updater); the answers of the   *)
(* external catalog provider (ytmusicapi) are inputs of the actions,       *)
(* drawn from bounded sets.                                                *)
(***************************************************************************)
EXTENDS Integers, Sequences, FiniteSets, TLC

VARIABLES
    links,      \* LINKS_FILE: the Track Store, a sequence of track records
    popular,    \* POPULAR_FILE: the Popularity Feed, a sequence of track records
    history,    \* per user: the history document, most recent first
    likes,      \* per user: the likes/playlists document
    now,        \* the wall clock in seconds (time.time(), datetime.now())
    last,       \* the last call served: its name, inputs and response
    admin_config, \* ADMIN_CONFIG_FILE: the list of tracked artists
    files,      \* per document: the condition of the file on disk
    updater,    \* the thread of background_track_updater: where it is
    calls       \* per worker thread: the call in flight and its locals

vars == <<links, popular, history, likes, now, last,
          admin_config, files, updater, calls>>

\* what the request handlers that run to completion leave alone
threads == <<admin_config, updater, calls>>

---------------------------------------------------------------------------
(* Bounds of the model *)

\* number of distinct track ids the users play, like and put in playlists
MaxId == 2
\* latest second the wall clock reaches
MaxTime == 1
\* most playlists a user creates
MaxPlaylists == 2
\* longest chart / artist listing the provider answers with
MaxListing == 2
\* largest `limit` passed to get_recommendations
MaxLimit == 2

(* Program constants *)

\* history[:500]
HistoryCap == 500
\* sorted_artists[:5]
TopArtists == 5
\* artist_scores[artist] + 1 for a play
PlayWeight == 1
\* artist_scores[artist] + 5 for a like
LikeWeight == 5
\* def get_recommendations(username, limit=20)
DefaultLimit == 20

---------------------------------------------------------------------------
(* Values *)

VideoIds == 1..MaxId
\* a falsy or absent 'videoId' (None, "", key missing)
NoId == 0
Users == {"u1", "u2"}
\* a key that is absent from a provider dict
Missing == "<missing>"
\* Python's None as a field value
None == "<None>"
\* an artist dict of the provider without a 'name' key
NoName == "<noname>"
\* a track record without 'last_updated' (Popularity Feed, provider records)
NoStamp == -1

\* the provider's data about a track id
ArtistOf(id) == IF id % 2 = 1 THEN "Foo" ELSE "Bar"
TitleOf(id) == IF id % 2 = 1 THEN "odd song" ELSE "even song"
\* videoDetails['author'] of ytmusic.get_song: the uploading channel
ChannelOf(id) == IF id % 2 = 1 THEN "Foo - Topic" ELSE "Baz"

\* str.replace('w120-h120', 'w544-h544') on the thumbnail urls the provider uses
ThumbReplace(url) == IF url = "img=w120-h120" THEN "img=w544-h544" ELSE url

\* str.replace(' - Topic', '') on the channel names the provider uses
TopicReplace(author) ==
    CASE author = "Foo - Topic" -> "Foo"
      [] author = "Bar - Topic" -> "Bar"
      [] OTHER -> author

\* the last element of a non-empty sequence: s[-1]
Last(s) == s[Len(s)]

\* s[:n] for n >= 0 and any n < 0 (Python slicing)
Slice(s, n) ==
    LET stop == IF n >= 0 THEN (IF n < Len(s) THEN n ELSE Len(s))
                ELSE (IF Len(s) + n > 0 THEN Len(s) + n ELSE 0)
    IN  SubSeq(s, 1, stop)

\* the set of elements of a sequence
Range(s) == {s[i] : i \in 1..Len(s)}

\* the sequences over S of length at most n
SeqUpTo(S, n) == UNION {[1..k -> S] : k \in 0..n}

---------------------------------------------------------------------------
(* Provider answers: the dicts ytmusicapi returns, as records *)

RawTrack(id, artists, album, thumbs) ==
    [artists |-> artists, album |-> album, videoId |-> id,
     title |-> TitleOf(id), duration |-> "3:05", thumbnails |-> thumbs]

\* a well-formed entry of a chart or an artist listing
GoodItem(id) ==
    RawTrack(id, <<ArtistOf(id)>>, Missing, <<"img=w60-h60", "img=w120-h120">>)
\* an entry with an album, two artists (one of them without a name) and a
\* thumbnail that is not 120x120
AlbumItem(id) ==
    RawTrack(id, <<NoName, "Bar">>, "Album", <<"img=w226-h226">>)
\* an entry that lists no artist
ArtistlessItem(id) == RawTrack(id, <<>>, Missing, <<"img=w120-h120">>)
\* an entry whose 'thumbnails' list is empty: thumbnails[-1] raises IndexError
BrokenItem(id) == RawTrack(id, <<ArtistOf(id)>>, Missing, <<>>)
\* an entry without a videoId
NoIdItem == RawTrack(NoId, <<"Foo">>, Missing, <<"img=w120-h120">>)

\* the entries a chart is made of
ChartItems ==
    {GoodItem(id) : id \in VideoIds}
        \cup {AlbumItem(1), ArtistlessItem(2), BrokenItem(1), NoIdItem}

\* the entries the provider lists for an artist
SongsOf(artist_name) ==
    IF artist_name = "Foo"
    THEN {GoodItem(id) : id \in {v \in VideoIds : ArtistOf(v) = "Foo"}}
             \cup {AlbumItem(1), NoIdItem}
    ELSE {GoodItem(id) : id \in {v \in VideoIds : ArtistOf(v) = "Bar"}}
             \cup {ArtistlessItem(2), BrokenItem(2)}

\* what ytmusic.get_chart / search + get_artist answer: an exception
\* ("error"), no artist found ("noartist", search only), or a listing
ProviderError == [kind |-> "error", items |-> <<>>]
\* ytmusic is None: the client could not be created at start-up
Unavailable == [kind |-> "unavailable", items |-> <<>>]
NoArtistFound == [kind |-> "noartist", items |-> <<>>]
Listing(items) == [kind |-> "listing", items |-> items]

ChartAnswers ==
    {ProviderError, Unavailable}
        \cup {Listing(s) : s \in SeqUpTo(ChartItems, MaxListing)}

ArtistAnswers(artist_name) ==
    {ProviderError, Unavailable, NoArtistFound}
        \cup {Listing(s) : s \in SeqUpTo(SongsOf(artist_name), MaxListing)}

\* what ytmusic.get_song does for the ids asked during one call: it answers
\* ("ok") for the ids up to k and fails ("fail") for the others
SongAnswers(ids) ==
    {[id \in ids |-> IF id <= k THEN "ok" ELSE "fail"] : k \in 0..MaxId}

---------------------------------------------------------------------------
(* Track records *)

Track(id, title, artists, album, duration, thumbnail, stamp) ==
    [artists |-> artists, album |-> album, videoId |-> id, title |-> title,
     duration |-> duration, thumbnail |-> thumbnail, last_updated |-> stamp]

\* stands for "no record" where a record is expected
NoSong == Track(NoId, None, <<>>, None, None, None, NoStamp)

\* 'album': track.get('album', {}).get('name') if track.get('album') else "Single"
AlbumName(raw) == IF raw.album = Missing THEN "Single" ELSE raw.album

\* whether building track_data from a raw entry raises (KeyError, IndexError)
\* strict: artist['name'] is read for every artist (fetch_and_save_artist_tracks)
Raises(raw, strict) ==
    \/ raw.thumbnails = <<>>
    \/ raw.title = Missing
    \/ strict /\ \E i \in 1..Len(raw.artists) : raw.artists[i] = NoName

\* the names of the artists that have one
NamedArtists(artists) == SelectSeq(artists, LAMBDA a : a # NoName)

\* track_data of update_popular_tracks
PopularTrackData(raw) ==
    Track(raw.videoId, raw.title, NamedArtists(raw.artists), AlbumName(raw),
          raw.duration, ThumbReplace(Last(raw.thumbnails)), NoStamp)

\* track_data of fetch_and_save_artist_tracks
ArtistTrackData(raw, stamp) ==
    Track(raw.videoId, raw.title, raw.artists, AlbumName(raw),
          raw.duration, ThumbReplace(Last(raw.thumbnails)), stamp)

\* the record get_song_details builds from ytmusic.get_song
ProviderSong(id) ==
    Track(id, TitleOf(id), <<TopicReplace(ChannelOf(id))>>,
          "Bilinmiyor", "3:05", ThumbReplace("img=w120-h120"), NoStamp)

---------------------------------------------------------------------------
(* Catalog Resolver *)

\* the first record of a store with this id (the `for song in ...` scans)
Lookup(songs, video_id) ==
    LET hits == {i \in 1..Len(songs) : songs[i].videoId = video_id}
    IN  IF hits = {} THEN <<>>
        ELSE <<songs[CHOOSE i \in hits : \A j \in hits : i <= j]>>

\* mutant: the Popularity Feed is scanned before the Track Store
get_song_details_PopularFirst(all_songs, popular_songs, video_id, answer) ==
    IF Lookup(popular_songs, video_id) # <<>>
    THEN [source |-> "popular", asked |-> FALSE,
          song |-> Lookup(popular_songs, video_id)[1]]
    ELSE IF Lookup(all_songs, video_id) # <<>>
    THEN [source |-> "links", asked |-> FALSE,
          song |-> Lookup(all_songs, video_id)[1]]
    ELSE IF answer = "ok"
    THEN [source |-> "provider", asked |-> TRUE, song |-> ProviderSong(video_id)]
    ELSE [source |-> "none", asked |-> answer # "unavailable", song |-> NoSong]

\* get_song_details: Track Store, then Popularity Feed, then the provider.
\* `answer` is what the provider does for this id: "ok", "fail" (get_song
\* raises) or "unavailable" (ytmusic is None).  asked: ytmusic.get_song was
\* called.  source "none" is the Python result None.
get_song_details(all_songs, popular_songs, video_id, answer) ==
    IF Lookup(all_songs, video_id) # <<>>
    THEN [source |-> "links", asked |-> FALSE,
          song |-> Lookup(all_songs, video_id)[1]]
    ELSE IF Lookup(popular_songs, video_id) # <<>>
    THEN [source |-> "popular", asked |-> FALSE,
          song |-> Lookup(popular_songs, video_id)[1]]
    ELSE IF answer = "ok"
    THEN [source |-> "provider", asked |-> TRUE, song |-> ProviderSong(video_id)]
    ELSE [source |-> "none", asked |-> answer # "unavailable", song |-> NoSong]

\* mutant: a song resolved at the provider is appended to the Track Store
LinksAfterResolve_Cached(all_songs, details) ==
    IF details.source = "provider" THEN Append(all_songs, details.song)
    ELSE all_songs

\* LINKS_FILE after get_song_details: the function holds no write_json,
\* whatever the source of the details
LinksAfterResolve(all_songs, details) == all_songs

---------------------------------------------------------------------------
(* Popularity Feed refresh *)

\* the loop of update_popular_tracks over playlist['items'], from entry i
\* on: entries without an id are skipped, the first entry whose
\* transformation raises ends the loop, the others are appended in order
PopularTracks(items, i) ==
    LET kept == SelectSeq(SubSeq(items, i, Len(items)),
                          LAMBDA track : track.videoId # NoId)
        raised == \E k \in 1..Len(kept) : Raises(kept[k], FALSE)
    IN  [raised |-> raised,
         tracks |-> IF raised THEN <<>>
                    ELSE [k \in 1..Len(kept) |-> PopularTrackData(kept[k])]]

\* how update_popular_tracks ends for a chart answer
RefreshOutcome(answer) ==
    IF answer.kind = "unavailable" THEN "unavailable"
    ELSE IF answer.kind # "listing" THEN "failed"
    ELSE IF PopularTracks(answer.items, 1).raised THEN "failed"
    ELSE IF PopularTracks(answer.items, 1).tracks = <<>> THEN "empty"
    ELSE "replaced"

\* the entries of a chart that have an id
WithId(items) == SelectSeq(items, LAMBDA track : track.videoId # NoId)

\* a chart whose fetch or transformation raises
ChartFails(answer) ==
    \/ answer.kind = "error"
    \/ /\ answer.kind = "listing"
       /\ \E i \in 1..Len(answer.items) :
              /\ answer.items[i].videoId # NoId
              /\ Raises(answer.items[i], FALSE)

\* a chart that is fetched and transformed, and yields at least one entry
ChartYields(answer) ==
    /\ answer.kind = "listing"
    /\ ~ChartFails(answer)
    /\ WithId(answer.items) # <<>>

\* what a refresh received: the entries with an id of a chart that yields,
\* nothing otherwise
Received(answer) == IF ChartYields(answer) THEN WithId(answer.items) ELSE <<>>

\* mutant: the new entries are merged into the feed
update_popular_tracks_Merge(popular_file, answer) ==
    IF RefreshOutcome(answer) = "replaced"
    THEN popular_file \o PopularTracks(answer.items, 1).tracks
    ELSE popular_file

\* mutant: an empty result is written too
update_popular_tracks_WriteEmpty(popular_file, answer) ==
    IF RefreshOutcome(answer) \in {"replaced", "empty"}
    THEN PopularTracks(answer.items, 1).tracks
    ELSE popular_file

\* POPULAR_FILE after update_popular_tracks
update_popular_tracks(popular_file, answer) ==
    IF RefreshOutcome(answer) = "replaced"
    THEN PopularTracks(answer.items, 1).tracks
    ELSE popular_file

---------------------------------------------------------------------------
(* Catalog Ingestion *)

\* mutant: the tracks gathered before the entry that raises are kept
RECURSIVE TracksToAdd_Partial(_, _, _, _)
TracksToAdd_Partial(items, i, existing_ids, stamp) ==
    IF i > Len(items) THEN [raised |-> FALSE, tracks |-> <<>>]
    ELSE IF items[i].videoId = NoId \/ items[i].videoId \in existing_ids
    THEN TracksToAdd_Partial(items, i + 1, existing_ids, stamp)
    ELSE IF Raises(items[i], TRUE) THEN [raised |-> TRUE, tracks |-> <<>>]
    ELSE LET rest == TracksToAdd_Partial(items, i + 1,
                                 existing_ids \cup {items[i].videoId}, stamp)
         IN  [raised |-> rest.raised,
              tracks |-> <<ArtistTrackData(items[i], stamp)>> \o rest.tracks]

\* the loop of fetch_and_save_artist_tracks over the artist's songs, from
\* entry i on, with the ids seen so far
RECURSIVE TracksToAdd(_, _, _, _)
TracksToAdd(items, i, existing_ids, stamp) ==
    IF i > Len(items) THEN [raised |-> FALSE, tracks |-> <<>>]
    ELSE IF items[i].videoId = NoId \/ items[i].videoId \in existing_ids
    THEN TracksToAdd(items, i + 1, existing_ids, stamp)
    ELSE IF Raises(items[i], TRUE) THEN [raised |-> TRUE, tracks |-> <<>>]
    ELSE LET rest == TracksToAdd(items, i + 1,
                                 existing_ids \cup {items[i].videoId}, stamp)
         IN  [raised |-> rest.raised,
              tracks |-> IF rest.raised THEN <<>>
                         ELSE <<ArtistTrackData(items[i], stamp)>> \o rest.tracks]

\* mutant: the ids already stored are not collected
ExistingIds_None(links_data) == {}

\* existing_ids = {track['videoId'] for track in links_data}
ExistingIds(links_data) == {links_data[i].videoId : i \in 1..Len(links_data)}

\* the tracks fetch_and_save_artist_tracks appends (none when it returns
\* early or an exception is caught)
NewTracks(links_data, answer, stamp) ==
    IF answer.kind # "listing" THEN <<>>
    ELSE TracksToAdd(answer.items, 1, ExistingIds(links_data), stamp).tracks

\* LINKS_FILE after fetch_and_save_artist_tracks
fetch_and_save_artist_tracks(links_data, answer, stamp) ==
    links_data \o NewTracks(links_data, answer, stamp)

\* mutant: the song is cached without looking for its id in the store
CachedSongs_Always(all_songs, song, video_id, stamp) ==
    Append(all_songs, [song EXCEPT !.last_updated = stamp])

\* mutant: the resolved song is put in front of the stored songs
CachedSongs_Front(all_songs, song, video_id, stamp) ==
    IF \E i \in 1..Len(all_songs) : all_songs[i].videoId = video_id
    THEN all_songs
    ELSE <<[song EXCEPT !.last_updated = stamp]>> \o all_songs

\* mutant: the store is rewritten with the resolved song alone
CachedSongs_Alone(all_songs, song, video_id, stamp) ==
    IF \E i \in 1..Len(all_songs) : all_songs[i].videoId = video_id
    THEN all_songs
    ELSE <<[song EXCEPT !.last_updated = stamp]>>

\* all_songs of api_song_details after the cache-fill: the details are
\* appended, stamped, when no stored song has the id asked for
CachedSongs(all_songs, song, video_id, stamp) ==
    IF \E i \in 1..Len(all_songs) : all_songs[i].videoId = video_id
    THEN all_songs
    ELSE Append(all_songs, [song EXCEPT !.last_updated = stamp])

---------------------------------------------------------------------------
(* Recommendation Engine *)

\* artist_scores[artist] = artist_scores.get(artist, 0) + weight, on a dict
\* kept as the sequence of its items in insertion order
AddScore(scores, artist, weight) ==
    IF \E i \in 1..Len(scores) : scores[i].artist = artist
    THEN [i \in 1..Len(scores) |->
            IF scores[i].artist = artist
            THEN [artist |-> artist, score |-> scores[i].score + weight]
            ELSE scores[i]]
    ELSE Append(scores, [artist |-> artist, score |-> weight])

\* for artist in song_details.get('artists', []): add weight
RECURSIVE AddArtists(_, _, _, _)
AddArtists(scores, artists, i, weight) ==
    IF i > Len(artists) THEN scores
    ELSE AddArtists(AddScore(scores, artists[i], weight), artists, i + 1, weight)

\* mutant: the loop ends at the first id that does not resolve
RECURSIVE ScoreIds_UntilUnresolved(_, _, _, _, _, _, _)
ScoreIds_UntilUnresolved(scores, ids, i, weight, all_songs, popular_songs, prov) ==
    IF i > Len(ids) THEN scores
    ELSE LET d == get_song_details(all_songs, popular_songs, ids[i], prov[ids[i]])
         IN  IF d.source = "none" THEN scores
             ELSE ScoreIds_UntilUnresolved(
                      AddArtists(scores, d.song.artists, 1, weight),
                      ids, i + 1, weight, all_songs, popular_songs, prov)

\* one of the two scoring loops: resolve each id and add weight to the
\* artists of the ids that resolve
RECURSIVE ScoreIds(_, _, _, _, _, _, _)
ScoreIds(scores, ids, i, weight, all_songs, popular_songs, prov) ==
    IF i > Len(ids) THEN scores
    ELSE LET d == get_song_details(all_songs, popular_songs, ids[i], prov[ids[i]])
         IN  ScoreIds(IF d.source = "none" THEN scores
                      ELSE AddArtists(scores, d.song.artists, 1, weight),
                      ids, i + 1, weight, all_songs, popular_songs, prov)

\* the videoIds of the history entries, in order
HistoryIds(hist) == [i \in 1..Len(hist) |-> hist[i].videoId]

\* mutant: a like is weighted as a play
ArtistScores_LikeAsPlay(hist, liked_order, all_songs, popular_songs, prov) ==
    ScoreIds(ScoreIds(<<>>, HistoryIds(hist), 1, PlayWeight,
                      all_songs, popular_songs, prov),
             liked_order, 1, PlayWeight, all_songs, popular_songs, prov)

\* artist_scores after both loops; liked_order is the order in which the
\* set liked_song_ids is iterated
ArtistScores(hist, liked_order, all_songs, popular_songs, prov) ==
    ScoreIds(ScoreIds(<<>>, HistoryIds(hist), 1, PlayWeight,
                      all_songs, popular_songs, prov),
             liked_order, 1, LikeWeight, all_songs, popular_songs, prov)

\* sorted(items, key=score, reverse=True): stable, so equal scores keep
\* their insertion order
RECURSIVE InsertByScore(_, _, _)
InsertByScore(sorted, item, i) ==
    IF i > Len(sorted) THEN Append(sorted, item)
    ELSE IF sorted[i].score < item.score
    THEN SubSeq(sorted, 1, i - 1) \o <<item>> \o SubSeq(sorted, i, Len(sorted))
    ELSE InsertByScore(sorted, item, i + 1)

RECURSIVE SortedByScore(_, _)
SortedByScore(items, n) ==
    IF n = 0 THEN <<>>
    ELSE InsertByScore(SortedByScore(items, n - 1), items[n], 1)

\* mutant: the artists are ranked by ascending score
TopOf_Ascending(scores) ==
    LET sorted_artists == SortedByScore(scores, Len(scores))
        n == Len(sorted_artists)
        kept == SubSeq(sorted_artists,
                       IF n > TopArtists THEN n - TopArtists + 1 ELSE 1, n)
    IN  [i \in 1..Len(kept) |-> kept[i].artist]

\* mutant: only the best artist is kept
TopOf_First(scores) ==
    LET sorted_artists == Slice(SortedByScore(scores, Len(scores)), 1)
    IN  [i \in 1..Len(sorted_artists) |-> sorted_artists[i].artist]

\* top_artists = [artist for artist, score in sorted_artists[:5]]
TopOf(scores) ==
    LET sorted_artists == Slice(SortedByScore(scores, Len(scores)), TopArtists)
    IN  [i \in 1..Len(sorted_artists) |-> sorted_artists[i].artist]

\* mutant: the tracks of the best artist first, then those of the next
RECURSIVE Candidates_ByRank(_, _, _)
Candidates_ByRank(all_songs, excluded, top_artists) ==
    IF top_artists = <<>> THEN <<>>
    ELSE SelectSeq(all_songs,
                   LAMBDA song : /\ song.videoId \notin excluded
                                 /\ top_artists[1] \in Range(song.artists))
         \o Candidates_ByRank(all_songs,
                              excluded \cup {all_songs[i].videoId : i \in
                                  {k \in 1..Len(all_songs) :
                                      top_artists[1] \in Range(all_songs[k].artists)}},
                              Tail(top_artists))

\* mutant: the tracks the user has played or liked are not left out
Candidates_WithHeard(all_songs, excluded, top_artists) ==
    SelectSeq(all_songs,
              LAMBDA song : \E i \in 1..Len(top_artists) :
                                top_artists[i] \in Range(song.artists))

\* the scan of the Track Store for tracks by a top artist
Candidates(all_songs, excluded, top_artists) ==
    SelectSeq(all_songs,
              LAMBDA song : /\ song.videoId \notin excluded
                            /\ \E i \in 1..Len(top_artists) :
                                   top_artists[i] \in Range(song.artists))

\* mutant: a feed entry is added even when its id is already selected
RECURSIVE TopUp_NoDedup(_, _, _, _, _)
TopUp_NoDedup(recommendations, popular_songs, i, excluded, limit) ==
    IF i > Len(popular_songs) \/ Len(recommendations) >= limit
    THEN recommendations
    ELSE TopUp_NoDedup(IF popular_songs[i].videoId \notin excluded
                       THEN Append(recommendations, popular_songs[i])
                       ELSE recommendations,
                       popular_songs, i + 1, excluded, limit)

\* the top-up loop over the Popularity Feed, from entry i on
RECURSIVE TopUp(_, _, _, _, _)
TopUp(recommendations, popular_songs, i, excluded, limit) ==
    IF i > Len(popular_songs) \/ Len(recommendations) >= limit
    THEN recommendations
    ELSE TopUp(IF /\ \A k \in 1..Len(recommendations) :
                        recommendations[k].videoId # popular_songs[i].videoId
                  /\ popular_songs[i].videoId \notin excluded
               THEN Append(recommendations, popular_songs[i])
               ELSE recommendations,
               popular_songs, i + 1, excluded, limit)

\* mutant: the slice is forgotten
NewUserResultUnsliced(popular_songs, limit) == popular_songs

\* return popular[:limit] when the user has neither history nor likes
NewUserResult(popular_songs, limit) == Slice(popular_songs, limit)

\* mutant: the whole feed is returned
NoScoresResult_Unsliced(popular_songs, limit) == popular_songs

\* return popular[:limit] when no artist was scored
NoScoresResult(popular_songs, limit) == Slice(popular_songs, limit)

\* mutant: the Popularity Feed is not used to top up
ScoredResult_NoTopUp(scores, all_songs, popular_songs, excluded, limit) ==
    Slice(Candidates(all_songs, excluded, TopOf(scores)), limit)

\* return recommendations[:limit] after the Track Store scan and the top-up
ScoredResult(scores, all_songs, popular_songs, excluded, limit) ==
    Slice(TopUp(Candidates(all_songs, excluded, TopOf(scores)),
                popular_songs, 1, excluded, limit),
          limit)

\* get_recommendations: the path taken, the score table and the list returned
get_recommendations(hist, liked, liked_order, all_songs, popular_songs, prov, limit) ==
    LET scores == ArtistScores(hist, liked_order, all_songs, popular_songs, prov)
        excluded == Range(HistoryIds(hist)) \cup liked
    IN  IF hist = <<>> /\ liked = {}
        THEN [path |-> "new_user", scores |-> <<>>,
              result |-> NewUserResult(popular_songs, limit)]
        ELSE IF scores = <<>>
        THEN [path |-> "no_scores", scores |-> scores,
              result |-> NoScoresResult(popular_songs, limit)]
        ELSE [path |-> "scored", scores |-> scores,
              result |-> ScoredResult(scores, all_songs, popular_songs,
                                      excluded, limit)]

\* the orders in which a set can be iterated
Orders(S) ==
    {o \in [1..Cardinality(S) -> S] : \A i, j \in 1..Cardinality(S) : o[i] = o[j] => i = j}

\* mutant: every id that is resolved at the provider is cached
RECURSIVE LinksAfterRecommend_Cached(_, _, _, _, _)
LinksAfterRecommend_Cached(all_songs, popular_songs, ids, i, prov) ==
    IF i > Len(ids) THEN all_songs
    ELSE LinksAfterRecommend_Cached(
             LinksAfterResolve_Cached(
                 all_songs,
                 get_song_details(all_songs, popular_songs, ids[i], prov[ids[i]])),
             popular_songs, ids, i + 1, prov)

\* LINKS_FILE after get_recommendations has resolved the ids of the history
\* and of the likes, from the i-th on
RECURSIVE LinksAfterRecommend(_, _, _, _, _)
LinksAfterRecommend(all_songs, popular_songs, ids, i, prov) ==
    IF i > Len(ids) THEN all_songs
    ELSE LinksAfterRecommend(
             LinksAfterResolve(
                 all_songs,
                 get_song_details(all_songs, popular_songs, ids[i], prov[ids[i]])),
             popular_songs, ids, i + 1, prov)

\* a score table as a function of the artist (the order of insertion dropped)
ScoreOf(scores) ==
    [a \in {scores[i].artist : i \in 1..Len(scores)} |->
        scores[CHOOSE i \in 1..Len(scores) : scores[i].artist = a].score]

---------------------------------------------------------------------------
(* User Activity Store *)

\* the likes/playlists document of a user who has none yet
NoLikes == [exists |-> FALSE, liked_songs |-> {}, playlists |-> <<>>]

\* mutant: the entry is inserted without removing the older one
log_play_NoDedup(hist, video_id, stamp) ==
    Slice(<<[videoId |-> video_id, timestamp |-> stamp]>> \o hist, HistoryCap)

\* mutant: the new entry is compared with the most recent entry only
log_play_FrontOnly(hist, video_id, stamp) ==
    Slice(<<[videoId |-> video_id, timestamp |-> stamp]>>
              \o (IF hist # <<>> /\ hist[1].videoId = video_id
                  THEN Tail(hist) ELSE hist),
          HistoryCap)

\* mutant: over the cap, the entry right behind the new one is dropped
\* instead of the last one
log_play_DropsRecent(hist, video_id, stamp) ==
    LET rest == SelectSeq(hist, LAMBDA item : item.videoId # video_id)
    IN  <<[videoId |-> video_id, timestamp |-> stamp]>>
            \o (IF Len(rest) >= HistoryCap
                THEN SubSeq(rest, 2, HistoryCap) ELSE rest)

\* the history document after log_play
log_play(hist, video_id, stamp) ==
    Slice(<<[videoId |-> video_id, timestamp |-> stamp]>>
              \o SelectSeq(hist, LAMBDA item : item.videoId # video_id),
          HistoryCap)

\* mutant: a liked id stays liked
toggle_like_AddOnly(likes_data, video_id) ==
    [exists |-> TRUE,
     liked_songs |-> likes_data.liked_songs \cup {video_id},
     playlists |-> likes_data.playlists]

\* the likes/playlists document after toggle_like; the JSON list
\* liked_songs is kept as the set it is read into
toggle_like(likes_data, video_id) ==
    [exists |-> TRUE,
     liked_songs |-> IF video_id \in likes_data.liked_songs
                     THEN likes_data.liked_songs \ {video_id}
                     ELSE likes_data.liked_songs \cup {video_id},
     playlists |-> likes_data.playlists]


\* mutant: the new playlist takes the place of the playlists
create_playlist_Alone(data, playlist_name, stamp) ==
    [exists |-> TRUE,
     liked_songs |-> data.liked_songs,
     playlists |-> <<[id |-> stamp, name |-> playlist_name, songs |-> <<>>]>>]

\* the likes/playlists document after create_playlist; the id
\* f"pl_{int(time.time())}" is kept as the second it is made of
create_playlist(data, playlist_name, stamp) ==
    [exists |-> TRUE,
     liked_songs |-> data.liked_songs,
     playlists |-> Append(data.playlists,
                          [id |-> stamp, name |-> playlist_name, songs |-> <<>>])]

\* mutant: the scan goes on to the last playlist with the id
FoundPlaylist_Last(user_data, playlist_id) ==
    LET hits == {i \in 1..Len(user_data.playlists) :
                     user_data.playlists[i].id = playlist_id}
    IN  IF hits = {} THEN 0 ELSE CHOOSE i \in hits : \A j \in hits : i >= j

\* the index of the playlist add_song_to_playlist stops at (0: none)
FoundPlaylist(user_data, playlist_id) ==
    LET hits == {i \in 1..Len(user_data.playlists) :
                     user_data.playlists[i].id = playlist_id}
    IN  IF hits = {} THEN 0 ELSE CHOOSE i \in hits : \A j \in hits : i <= j

\* mutant: the song is appended without looking for it in the playlist
add_song_to_playlist_Always(user_data, playlist_id, video_id) ==
    LET k == FoundPlaylist(user_data, playlist_id)
    IN  IF k = 0 THEN user_data
        ELSE [user_data EXCEPT !.playlists[k].songs = Append(@, video_id)]

\* mutant: a playlist that is not found is created with the song
add_song_to_playlist_Upsert(user_data, playlist_id, video_id) ==
    LET k == FoundPlaylist(user_data, playlist_id)
    IN  IF k = 0
        THEN [exists |-> TRUE,
              liked_songs |-> user_data.liked_songs,
              playlists |-> Append(user_data.playlists,
                                   [id |-> playlist_id, name |-> "",
                                    songs |-> <<video_id>>])]
        ELSE [user_data EXCEPT
                !.playlists[k].songs =
                    IF video_id \in Range(@) THEN @ ELSE Append(@, video_id)]

\* the likes/playlists document after add_song_to_playlist (written only
\* when the playlist is found)
add_song_to_playlist(user_data, playlist_id, video_id) ==
    LET k == FoundPlaylist(user_data, playlist_id)
    IN  IF k = 0 THEN user_data
        ELSE [user_data EXCEPT
                !.playlists[k].songs =
                    IF video_id \in Range(@) THEN @ ELSE Append(@, video_id)]

---------------------------------------------------------------------------
(* The handlers as actions.  `last` keeps the call and its response. *)

Idle == [op |-> "none"]

\* two threads out of those that read and rewrite LINKS_FILE: each runs
\* fetch_and_save_artist_tracks (as the background job does, and the thread
\* admin_panel starts) or api_song_details (a request thread)
Workers == {"t1", "t2"}
\* a worker that runs nothing
NoCall == [pc |-> "idle"]
\* background_track_updater before its first cycle
Starting ==
    [artists |-> <<>>, raised |-> FALSE, pc |-> "cycle", attempted |-> <<>>,
     failed |-> <<>>]

\* the condition of a file on disk: a readable JSON document; no file; a
\* file of size 0; text that is not JSON; bytes that are not UTF-8
Conditions == {"ok", "missing", "empty", "malformed", "undecodable"}
\* every document readable
AllIntact ==
    [links |-> "ok", popular |-> "ok", history |-> [u \in Users |-> "ok"],
     likes |-> [u \in Users |-> "ok"], config |-> "ok"]

UpdatePopularTracks(answer) ==
    /\ popular' = update_popular_tracks(popular, answer)
    /\ last' = [op |-> "update_popular_tracks", received |-> Received(answer),
                outcome |-> RefreshOutcome(answer), previous |-> Len(popular)]
    /\ UNCHANGED <<links, history, likes, now, files, threads>>

FetchAndSaveArtistTracks(artist_name, answer) ==
    /\ links' = fetch_and_save_artist_tracks(links, answer, now)
    /\ last' = [op |-> "fetch_and_save_artist_tracks", artist |-> artist_name,
                answer |-> answer,
                added |-> Len(NewTracks(links, answer, now)),
                again |-> /\ last.op = "fetch_and_save_artist_tracks"
                          /\ last.artist = artist_name
                          /\ last.answer = answer]
    /\ UNCHANGED <<popular, history, likes, now, files, threads>>

GetSongDetails(video_id, answer) ==
    /\ last' = [op |-> "get_song_details", videoId |-> video_id,
                details |-> get_song_details(links, popular, video_id, answer)]
    /\ links' = LinksAfterResolve(
                    links, get_song_details(links, popular, video_id, answer))
    /\ UNCHANGED <<popular, history, likes, now, files, threads>>

\* read_json lets through what open and json.load raise other than
\* JSONDecodeError and FileNotFoundError: the UnicodeDecodeError of a file
\* whose bytes are not UTF-8
read_json_raises(condition) == condition = "undecodable"

\* the usernames of the registered accounts: login stores whatever name
\* the registration form holds
Accounts == Users \cup {"./u1"}

\* get_user_data_path: the directory of USERS_DIR in which the files of a
\* username lie. os.path.join(USERS_DIR, username) and the file names
\* f'{username}.json' and f'{username}likedandplaylist.json' take the name
\* as it is, and the file system resolves a leading "./" away.
get_user_data_path(username) == IF username = "./u1" THEN "u1" ELSE username

\* mutant: the history is read before the id is looked at
LogPlay_ReadFirst(u, video_id) ==
    /\ IF read_json_raises(files.history[get_user_data_path(u)])
       THEN /\ last' = [op |-> "log_play", user |-> u, videoId |-> video_id,
                        status |-> 500, replayed |-> FALSE]
            /\ UNCHANGED <<history, files>>
       ELSE IF video_id = NoId
       THEN /\ last' = [op |-> "log_play", user |-> u, videoId |-> video_id,
                        status |-> 400, replayed |-> FALSE]
            /\ UNCHANGED <<history, files>>
       ELSE /\ history' = [history EXCEPT ![get_user_data_path(u)] =
                              log_play(@, video_id, now)]
            /\ files' = [files EXCEPT !.history[get_user_data_path(u)] = "ok"]
            /\ last' = [op |-> "log_play", user |-> u, videoId |-> video_id,
                        status |-> 200, replayed |-> FALSE]
    /\ UNCHANGED <<links, popular, likes, now, threads>>

LogPlay(u, video_id) ==
    /\ IF video_id = NoId
       THEN /\ last' = [op |-> "log_play", user |-> u, videoId |-> video_id,
                        status |-> 400, replayed |-> FALSE]
            /\ UNCHANGED <<history, files>>
       ELSE IF read_json_raises(files.history[get_user_data_path(u)])
       THEN /\ last' = [op |-> "log_play", user |-> u, videoId |-> video_id,
                        status |-> 500, replayed |-> FALSE]
            /\ UNCHANGED <<history, files>>
       ELSE /\ history' = [history EXCEPT ![get_user_data_path(u)] = log_play(@, video_id, now)]
            /\ files' = [files EXCEPT !.history[get_user_data_path(u)] = "ok"]
            /\ last' = [op |-> "log_play", user |-> u, videoId |-> video_id,
                        status |-> 200,
                        replayed |-> video_id \in Range(HistoryIds(history[get_user_data_path(u)]))]
    /\ UNCHANGED <<links, popular, likes, now, threads>>

ToggleLike(u, video_id) ==
    /\ IF video_id = NoId
       THEN /\ last' = [op |-> "toggle_like", user |-> u, videoId |-> video_id,
                        status |-> 400, is_liked |-> FALSE]
            /\ UNCHANGED <<likes, files>>
       ELSE IF read_json_raises(files.likes[get_user_data_path(u)])
       THEN /\ last' = [op |-> "toggle_like", user |-> u, videoId |-> video_id,
                        status |-> 500, is_liked |-> FALSE]
            /\ UNCHANGED <<likes, files>>
       ELSE /\ likes' = [likes EXCEPT ![get_user_data_path(u)] = toggle_like(@, video_id)]
            /\ files' = [files EXCEPT !.likes[get_user_data_path(u)] = "ok"]
            /\ last' = [op |-> "toggle_like", user |-> u, videoId |-> video_id,
                        status |-> 200,
                        is_liked |-> video_id \notin likes[get_user_data_path(u)].liked_songs]
    /\ UNCHANGED <<links, popular, history, now, threads>>

CreatePlaylist(u, playlist_name) ==
    /\ IF playlist_name = ""
       THEN /\ last' = [op |-> "create_playlist", user |-> u, status |-> 400]
            /\ UNCHANGED <<likes, files>>
       ELSE IF read_json_raises(files.likes[get_user_data_path(u)])
       THEN /\ last' = [op |-> "create_playlist", user |-> u, status |-> 500]
            /\ UNCHANGED <<likes, files>>
       ELSE /\ Len(likes[get_user_data_path(u)].playlists) < MaxPlaylists
            /\ likes' = [likes EXCEPT ![get_user_data_path(u)] = create_playlist(@, playlist_name, now)]
            /\ files' = [files EXCEPT !.likes[get_user_data_path(u)] = "ok"]
            /\ last' = [op |-> "create_playlist", user |-> u, status |-> 201]
    /\ UNCHANGED <<links, popular, history, now, threads>>

AddSongToPlaylist(u, playlist_id, video_id) ==
    /\ IF playlist_id = NoStamp \/ video_id = NoId
       THEN /\ last' = [op |-> "add_song_to_playlist", user |-> u,
                        playlistId |-> playlist_id, videoId |-> video_id,
                        status |-> 400, again |-> FALSE]
            /\ UNCHANGED <<likes, files>>
       ELSE IF read_json_raises(files.likes[get_user_data_path(u)])
       THEN /\ last' = [op |-> "add_song_to_playlist", user |-> u,
                        playlistId |-> playlist_id, videoId |-> video_id,
                        status |-> 500, again |-> FALSE]
            /\ UNCHANGED <<likes, files>>
       ELSE /\ likes' = [likes EXCEPT
                            ![get_user_data_path(u)] = add_song_to_playlist(@, playlist_id, video_id)]
            /\ files' = [files EXCEPT !.likes[get_user_data_path(u)] =
                            IF FoundPlaylist(likes[get_user_data_path(u)], playlist_id) = 0
                            THEN @ ELSE "ok"]
            /\ last' = [op |-> "add_song_to_playlist", user |-> u,
                        playlistId |-> playlist_id, videoId |-> video_id,
                        status |-> IF FoundPlaylist(likes[get_user_data_path(u)], playlist_id) = 0
                                   THEN 404 ELSE 200,
                        again |-> /\ last.op = "add_song_to_playlist"
                                  /\ last.user = u
                                  /\ last.playlistId = playlist_id
                                  /\ last.videoId = video_id
                                  /\ last.status = 200]
    /\ UNCHANGED <<links, popular, history, now, threads>>

GetRecommendations(u, limit, prov, liked_order) ==
    /\ LET r == get_recommendations(history[u], likes[u].liked_songs, liked_order,
                                    links, popular, prov, limit)
       IN  last' = [op |-> "get_recommendations", user |-> u, limit |-> limit,
                    prov |-> prov, path |-> r.path, scores |-> ScoreOf(r.scores),
                    result |-> r.result, liked_order |-> liked_order,
                    reordered |-> /\ last.op = "get_recommendations"
                                  /\ last.user = u
                                  /\ last.limit = limit
                                  /\ last.prov = prov
                                  /\ last.liked_order # liked_order]
    /\ links' = LinksAfterRecommend(links, popular,
                                    HistoryIds(history[u]) \o liked_order, 1, prov)
    /\ UNCHANGED <<popular, history, likes, now, files, threads>>

\* a second passes
Tick ==
    /\ now < MaxTime
    /\ now' = now + 1
    /\ UNCHANGED <<links, popular, history, likes, last, files, threads>>

---------------------------------------------------------------------------
(* The calls that read LINKS_FILE, work on what they read and rewrite the  *)
(* file, one file access per step.  No lock is taken in src/app.py.        *)

\* what a worker finds when it reads LINKS_FILE: its content or, while
\* another worker is about to rewrite the file, the default [] that
\* read_json returns for the empty or half-written file
Readings(w) ==
    {links} \cup IF \E v \in Workers \ {w} : calls[v].pc = "write"
                 THEN {<<>>} ELSE {}

\* fetch_and_save_artist_tracks up to tracks_to_add: the provider is asked,
\* LINKS_FILE is read and the listing is filtered against what was read
IngestRead(w, artist_name, answer) ==
    /\ \/ calls[w].pc = "idle"
       \/ calls[w].pc = "spawned" /\ calls[w].artist = artist_name
    /\ \E links_data \in Readings(w) :
           calls' = [calls EXCEPT ![w] =
                        IF NewTracks(links_data, answer, now) = <<>> THEN NoCall
                        ELSE [pc |-> "write", snapshot |-> links_data,
                              data |-> fetch_and_save_artist_tracks(
                                           links_data, answer, now)]]
    /\ UNCHANGED <<links, popular, history, likes, now, last,
                   admin_config, files, updater>>

\* api_song_details up to `if details:`: the song is resolved
DetailsRead(w, video_id, answer) ==
    /\ calls[w].pc = "idle"
    /\ \E all_songs \in Readings(w) :
           LET details == get_song_details(all_songs, popular, video_id, answer)
           IN  calls' = [calls EXCEPT ![w] =
                            IF details.source = "none" THEN NoCall
                            ELSE [pc |-> "check", videoId |-> video_id,
                                  song |-> details.song]]
    /\ UNCHANGED <<links, popular, history, likes, now, last,
                   admin_config, files, updater>>

\* api_song_details: LINKS_FILE is read again and the song is appended to
\* what was read when its id is not there
CacheCheck(w) ==
    /\ calls[w].pc = "check"
    /\ \E all_songs \in Readings(w) :
           LET data == CachedSongs(all_songs, calls[w].song, calls[w].videoId, now)
           IN  calls' = [calls EXCEPT ![w] =
                            IF data = all_songs THEN NoCall
                            ELSE [pc |-> "write", snapshot |-> all_songs,
                                  data |-> data]]
    /\ UNCHANGED <<links, popular, history, likes, now, last,
                   admin_config, files, updater>>

\* write_json(LINKS_FILE, ...): the worker's data becomes the content of
\* the file
WriteLinks(w) ==
    /\ calls[w].pc = "write"
    /\ links' = calls[w].data
    /\ calls' = [calls EXCEPT ![w] = NoCall]
    /\ last' = [op |-> "write_json", worker |-> w,
                stale |-> links # calls[w].snapshot,
                lost |-> \E i \in 1..Len(links) :
                            \A j \in 1..Len(calls[w].data) :
                                calls[w].data[j].videoId # links[i].videoId]
    /\ UNCHANGED <<popular, history, likes, now, admin_config, files, updater>>

---------------------------------------------------------------------------
(* Spec: the recommendation engine over a catalog that the jobs fill from  *)
(* a few provider answers, with one listener's plays and likes             *)

Init ==
    /\ links = <<>>
    /\ popular = <<>>
    /\ history = [u \in Users |-> <<>>]
    /\ likes = [u \in Users |-> NoLikes]
    /\ now = 0
    /\ last = Idle
    /\ admin_config = <<>>
    /\ files = AllIntact
    /\ updater = Starting
    /\ calls = [w \in Workers |-> NoCall]

\* the listener whose requests are served
Listener == "u1"

\* the charts the provider answers with
FewCharts ==
    {ProviderError,
     Listing(<<GoodItem(1), ArtistlessItem(2)>>),
     Listing(<<GoodItem(4), AlbumItem(1), GoodItem(4)>>)}

\* the listings the provider answers with for an artist
FewListings(artist_name) ==
    IF artist_name = "Foo"
    THEN {NoArtistFound, Listing(<<GoodItem(1), GoodItem(3)>>)}
    ELSE {ProviderError, Listing(<<ArtistlessItem(2), GoodItem(4)>>)}

\* the listings the provider answers the background job with
UpdaterListings(artist_name) == FewListings(artist_name) \cup {ProviderError}

Next ==
    \/ \E answer \in FewCharts : UpdatePopularTracks(answer)
    \/ \E artist_name \in {"Foo", "Bar"} :
           \E answer \in FewListings(artist_name) :
               FetchAndSaveArtistTracks(artist_name, answer)
    \/ \E video_id \in VideoIds, answer \in {"ok", "fail", "unavailable"} :
           GetSongDetails(video_id, answer)
    \/ \E video_id \in VideoIds \cup {NoId} : LogPlay(Listener, video_id)
    \/ \E video_id \in VideoIds \cup {NoId} : ToggleLike(Listener, video_id)
    \/ \E limit \in 0..MaxLimit, prov \in SongAnswers(VideoIds),
              liked_order \in Orders(likes[Listener].liked_songs) :
           GetRecommendations(Listener, limit, prov, liked_order)

Spec == Init /\ [][Next]_vars

---------------------------------------------------------------------------
(* Claims about the recommendation engine, under Spec *)

\* the ids a user has played or liked
Heard(u) == Range(HistoryIds(history[u])) \cup likes[u].liked_songs

\* the ids of the records of a store
IdsOf(songs) == {songs[i].videoId : i \in 1..Len(songs)}

\* the smaller of two numbers
Min(a, b) == IF a <= b THEN a ELSE b

\* C1: the list get_recommendations returns holds no track whose id is in
\* the user's history or liked songs, on every return path.
C1_NoHeardTrackRecommended ==
    last.op = "get_recommendations" =>
        \A i \in 1..Len(last.result) :
            last.result[i].videoId \notin Heard(last.user)

---------------------------------------------------------------------------
(* SpecFeed: the Popularity Feed under every chart answer, and its reader  *)

NextFeed ==
    \/ \E answer \in ChartAnswers : UpdatePopularTracks(answer)
    \/ \E video_id \in VideoIds, answer \in {"ok", "fail", "unavailable"} :
           GetSongDetails(video_id, answer)
    \/ \E limit \in 0..MaxLimit, prov \in SongAnswers(VideoIds),
              liked_order \in Orders(likes[Listener].liked_songs) :
           GetRecommendations(Listener, limit, prov, liked_order)

SpecFeed == Init /\ [][NextFeed]_vars

\* C2: for a user with an empty history and no liked song,
\* get_recommendations returns the first `limit` entries of the Popularity
\* Feed, in feed order and unmodified.
C2_NewUserGetsFeedHead ==
    (/\ last.op = "get_recommendations"
     /\ history[last.user] = <<>>
     /\ likes[last.user].liked_songs = {}) =>
        /\ Len(last.result) = Min(last.limit, Len(popular))
        /\ \A i \in 1..Len(last.result) : last.result[i] = popular[i]

\* C2 witness: a new user is served a feed that is longer than the limit
C2_Witness ==
    /\ last.op = "get_recommendations"
    /\ history[last.user] = <<>>
    /\ likes[last.user].liked_songs = {}
    /\ last.limit > 0
    /\ Len(popular) > last.limit
    /\ Len(last.result) = last.limit

\* C9: when the chart fetched yields at least one entry with an id, the
\* Popularity Feed afterwards is exactly the transformed entries that have
\* an id, in chart order; nothing of the previous feed is kept.
C9_FeedReplaced ==
    (last.op = "update_popular_tracks" /\ last.received # <<>>) =>
        /\ Len(popular) = Len(last.received)
        /\ \A i \in 1..Len(popular) :
               popular[i] = PopularTrackData(last.received[i])

\* C9 witness: a refresh has replaced a longer feed by a shorter one
C9_Witness ==
    /\ last.op = "update_popular_tracks"
    /\ last.received # <<>>
    /\ last.previous > Len(popular)
    /\ Len(popular) > 0

\* C10: on a provider failure (an exception while the chart is fetched or
\* transformed, or no provider client) or a chart without any entry with an
\* id, the Popularity Feed is left as it was.
C10_FeedKeptOnFailure ==
    [][(last'.op = "update_popular_tracks" /\ last'.received = <<>>) =>
           popular' = popular]_vars

\* C10 witness: a refresh that failed or came back empty, over a feed that
\* is not empty
C10_Witness ==
    /\ last.op = "update_popular_tracks"
    /\ last.received = <<>>
    /\ last.outcome \in {"failed", "empty"}
    /\ last.previous > 0
    /\ Len(popular) = last.previous

---------------------------------------------------------------------------
(* SpecCatalog: the resolver over a Track Store and a Popularity Feed that *)
(* the jobs fill from a few provider answers                               *)

NextCatalog ==
    \/ \E answer \in FewCharts : UpdatePopularTracks(answer)
    \/ \E artist_name \in {"Foo", "Bar"} :
           \E answer \in FewListings(artist_name) :
               FetchAndSaveArtistTracks(artist_name, answer)
    \/ \E video_id \in VideoIds, answer \in {"ok", "fail", "unavailable"} :
           GetSongDetails(video_id, answer)

SpecCatalog == Init /\ [][NextCatalog]_vars

\* C5: get_song_details returns the Track Store record when the id is in
\* the Track Store, whatever the Popularity Feed holds for the id; the
\* Popularity Feed record only when the id is not in the Track Store; and
\* it asks the provider only when both miss.
C5_ResolverPrecedence ==
    last.op = "get_song_details" =>
        LET id == last.videoId
            d == last.details
        IN  /\ id \in IdsOf(links) =>
                /\ d.source = "links"
                /\ \E i \in 1..Len(links) :
                       /\ links[i] = d.song
                       /\ links[i].videoId = id
                       /\ \A j \in 1..(i - 1) : links[j].videoId # id
            /\ d.source = "popular" =>
                /\ id \notin IdsOf(links)
                /\ \E i \in 1..Len(popular) :
                       /\ popular[i] = d.song
                       /\ popular[i].videoId = id
                       /\ \A j \in 1..(i - 1) : popular[j].videoId # id
            /\ (id \notin IdsOf(links) /\ id \in IdsOf(popular)) =>
                d.source = "popular"
            /\ (d.asked \/ d.source = "provider") =>
                (id \notin IdsOf(links) /\ id \notin IdsOf(popular))

\* C5 witness: the id resolved is in both stores, with different records
C5_Witness ==
    /\ last.op = "get_song_details"
    /\ last.details.source = "links"
    /\ \E i \in 1..Len(popular) :
           /\ popular[i].videoId = last.videoId
           /\ popular[i] # last.details.song

\* C14: a call of get_song_details leaves the Track Store and the
\* Popularity Feed as they were, whatever the source of the details; a
\* song resolved at the provider is not in the Track Store afterwards.
C14_ResolverWritesNothing ==
    [][last'.op = "get_song_details" =>
           /\ links' = links
           /\ popular' = popular
           /\ last'.details.source = "provider" =>
                  last'.videoId \notin IdsOf(links')]_vars

\* C14 witness: the details came from the provider
C14_Witness ==
    /\ last.op = "get_song_details"
    /\ last.details.source = "provider"
    /\ last.details.song.videoId = last.videoId
    /\ links # <<>>

---------------------------------------------------------------------------
(* SpecIngest: the Track Store under every artist listing *)

NextIngest ==
    \E artist_name \in {"Foo", "Bar"} :
        \E answer \in ArtistAnswers(artist_name) :
            FetchAndSaveArtistTracks(artist_name, answer)

SpecIngest == Init /\ [][NextIngest]_vars

\* C4: a second run of fetch_and_save_artist_tracks for the same artist,
\* the provider answering as in the first run and nothing else written in
\* between, adds no track and leaves the Track Store as the first run left it.
C4_IngestIdempotent ==
    [][(/\ last.op = "fetch_and_save_artist_tracks"
        /\ FetchAndSaveArtistTracks(last.artist, last.answer)) =>
           (links' = links /\ last'.added = 0)]_vars

\* C4 witness: the second of two equal runs, for a listing whose tracks
\* the first run stored
C4_Witness ==
    /\ last.op = "fetch_and_save_artist_tracks"
    /\ last.again
    /\ last.added = 0
    /\ \E i \in 1..Len(last.answer.items) :
           /\ last.answer.items[i].videoId \in IdsOf(links)
           /\ ~Raises(last.answer.items[i], TRUE)

\* C38: the list get_recommendations returns never holds two tracks with
\* the same id, whatever the charts the Popularity Feed was refreshed from.
C38_ResultIdsUnique ==
    last.op = "get_recommendations" =>
        \A i, j \in 1..Len(last.result) :
            last.result[i].videoId = last.result[j].videoId => i = j

---------------------------------------------------------------------------
(* SpecHistory: one listener's plays, from an empty history and from a     *)
(* history that has reached the cap                                        *)

\* a history of HistoryCap plays of distinct tracks, track 1 played last
FullHistory == [i \in 1..HistoryCap |-> [videoId |-> i, timestamp |-> 0]]

\* the ids played: the first ids, the oldest entry of the full history and
\* an id that is not in it
PlayIds == VideoIds \cup {HistoryCap, HistoryCap + 1}

InitHistory ==
    /\ links = <<>>
    /\ popular = <<>>
    /\ \E h \in {<<>>, FullHistory} :
           history = [u \in Users |-> IF u = Listener THEN h ELSE <<>>]
    /\ likes = [u \in Users |-> NoLikes]
    /\ now = 0
    /\ last = Idle
    /\ admin_config = <<>>
    /\ files = AllIntact
    /\ updater = Starting
    /\ calls = [w \in Workers |-> NoCall]

NextHistory ==
    \E video_id \in PlayIds \cup {NoId} : LogPlay(Listener, video_id)

SpecHistory == InitHistory /\ [][NextHistory]_vars

\* C3: a history never has more than 500 entries; and log_play of an id
\* that is already in the history leaves its length unchanged and puts the
\* id at the front.
C3_HistoryCappedAndMovedToFront ==
    /\ [](\A u \in Users : Len(history[u]) <= 500)
    /\ [][\A u \in Users : \A video_id \in PlayIds :
              (/\ video_id \in Range(HistoryIds(history[u]))
               /\ LogPlay(u, video_id)) =>
                  /\ Len(history'[u]) = Len(history[u])
                  /\ history'[u][1].videoId = video_id]_vars

\* C3 witness: a track deep in a history of 500 entries has been replayed
C3_Witness ==
    /\ last.op = "log_play"
    /\ last.replayed
    /\ Len(history[last.user]) = 500
    /\ history[last.user][1].videoId = last.videoId
    /\ last.videoId = 500

\* C26: after log_play(v) the first entry is v, the entries behind it are
\* the previous entries other than v in their previous order, and from a
\* history of 500 entries without v only the last entry is dropped.
C26_MostRecentFirst ==
    [][\A u \in Users : \A video_id \in PlayIds :
          LogPlay(u, video_id) =>
              LET others == SelectSeq(history[u],
                                      LAMBDA item : item.videoId # video_id)
              IN  /\ history'[u][1].videoId = video_id
                  /\ Tail(history'[u])
                         = SubSeq(others, 1, Len(history'[u]) - 1)
                  /\ Len(others) < 500 => Len(history'[u]) = Len(others) + 1
                  /\ (/\ Len(history[u]) = 500
                      /\ video_id \notin Range(HistoryIds(history[u]))) =>
                         Tail(history'[u]) = SubSeq(history[u], 1, 499)]_vars

\* C26 witness: a new track was played on a history of 500 entries; the
\* entry played last before is second and the oldest entry is gone
C26_Witness ==
    /\ last.op = "log_play"
    /\ last.status = 200
    /\ ~last.replayed
    /\ last.videoId = 501
    /\ Len(history[last.user]) = 500
    /\ history[last.user][2].videoId = 1
    /\ history[last.user][500].videoId = 499

---------------------------------------------------------------------------
(* SpecLibrary: one listener's likes and playlists, as the seconds pass *)

\* the playlist ids a request can name: pl_<second>, or none
PlaylistIds == 0..MaxTime

NextLibrary ==
    \/ Tick
    \/ \E playlist_name \in {"mix", ""} : CreatePlaylist(Listener, playlist_name)
    \/ \E playlist_id \in PlaylistIds \cup {NoStamp}, video_id \in VideoIds \cup {NoId} :
           AddSongToPlaylist(Listener, playlist_id, video_id)
    \/ \E video_id \in {1, NoId} : ToggleLike(Listener, video_id)

SpecLibrary == Init /\ [][NextLibrary]_vars

\* how often an id occurs in a sequence of ids
Occurrences(songs, video_id) ==
    Cardinality({i \in 1..Len(songs) : songs[i] = video_id})

\* C7: after add_song_to_playlist succeeds, the track is exactly once in
\* the songs of the playlist it found; and a second call with the same
\* playlist and track leaves the likes/playlists document unchanged.
C7_AddSongIdempotent ==
    /\ []((last.op = "add_song_to_playlist" /\ last.status = 200) =>
            \E k \in 1..Len(likes[last.user].playlists) :
                /\ likes[last.user].playlists[k].id = last.playlistId
                /\ \A j \in 1..(k - 1) :
                       likes[last.user].playlists[j].id # last.playlistId
                /\ Occurrences(likes[last.user].playlists[k].songs,
                               last.videoId) = 1)
    /\ [][\A u \in Users : \A playlist_id \in PlaylistIds : \A video_id \in VideoIds :
              (/\ last.op = "add_song_to_playlist"
               /\ last.status = 200
               /\ last.user = u
               /\ last.playlistId = playlist_id
               /\ last.videoId = video_id
               /\ AddSongToPlaylist(u, playlist_id, video_id)) =>
                  (likes' = likes /\ last'.status = 200)]_vars

\* C7 witness: the second of two equal calls, on a playlist that holds
\* another song as well
C7_Witness ==
    /\ last.op = "add_song_to_playlist"
    /\ last.again
    /\ last.status = 200
    /\ \E k \in 1..Len(likes[last.user].playlists) :
           /\ likes[last.user].playlists[k].id = last.playlistId
           /\ Len(likes[last.user].playlists[k].songs) > 1

---------------------------------------------------------------------------
(* SpecShelf: one listener's likes and playlists of two songs, as the      *)
(* seconds pass                                                           *)

NextShelf ==
    \/ Tick
    \/ \E video_id \in {1, 2} : ToggleLike(Listener, video_id)
    \/ CreatePlaylist(Listener, "mix")
    \/ \E playlist_id \in PlaylistIds, video_id \in {1, 2} :
           AddSongToPlaylist(Listener, playlist_id, video_id)

SpecShelf == Init /\ [][NextShelf]_vars

\* the playlists of a user that lie behind a playlist with the same id
Shadowed(u) ==
    {k \in 1..Len(likes[u].playlists) :
        \E j \in 1..(k - 1) : likes[u].playlists[j].id = likes[u].playlists[k].id}

\* C32: a create_playlist in a second in which the user already created a
\* playlist appends a second record with the same id and keeps the first;
\* add_song_to_playlist with that id changes the first of them only, and
\* the record behind it never holds a song.
C32_SameSecondPlaylists ==
    /\ [][\A u \in Users :
              (/\ CreatePlaylist(u, "mix")
               /\ \E j \in 1..Len(likes[u].playlists) :
                      likes[u].playlists[j].id = now) =>
                  /\ Len(likes'[u].playlists) = Len(likes[u].playlists) + 1
                  /\ SubSeq(likes'[u].playlists, 1, Len(likes[u].playlists))
                         = likes[u].playlists
                  /\ likes'[u].playlists[Len(likes'[u].playlists)].id = now]_vars
    /\ [][\A u \in Users : \A playlist_id \in PlaylistIds : \A video_id \in {1, 2} :
              AddSongToPlaylist(u, playlist_id, video_id) =>
                  \A k \in 1..Len(likes[u].playlists) :
                      likes'[u].playlists[k] # likes[u].playlists[k] =>
                          /\ likes[u].playlists[k].id = playlist_id
                          /\ k \notin Shadowed(u)]_vars
    /\ [](\A u \in Users : \A k \in Shadowed(u) :
              likes[u].playlists[k].songs = <<>>)

\* C32 witness: two playlists of one second, the first of which has
\* received a song through their id
C32_Witness ==
    /\ last.op = "add_song_to_playlist"
    /\ last.status = 200
    /\ Len(likes[last.user].playlists) = 2
    /\ likes[last.user].playlists[1].id = last.playlistId
    /\ likes[last.user].playlists[2].id = last.playlistId
    /\ likes[last.user].playlists[1].songs = <<last.videoId>>
    /\ likes[last.user].playlists[2].songs = <<>>

\* C34: add_song_to_playlist with an id that none of the user's playlists
\* has, a user without a likes/playlists document included, answers 404
\* and leaves the document and its file as they were.
C34_UnknownPlaylistNotFound ==
    [][\A u \in Users : \A playlist_id \in PlaylistIds : \A video_id \in {1, 2} :
          (/\ AddSongToPlaylist(u, playlist_id, video_id)
           /\ \A k \in 1..Len(likes[u].playlists) :
                  likes[u].playlists[k].id # playlist_id) =>
              /\ last'.status = 404
              /\ likes' = likes
              /\ files' = files]_vars

\* C34 witness: a song was to be added to a playlist of a user who has no
\* likes/playlists document, and has none after the answer
C34_Witness ==
    /\ last.op = "add_song_to_playlist"
    /\ last.status = 404
    /\ last.playlistId \in PlaylistIds
    /\ ~likes[last.user].exists
    /\ now > 0

\* C37: toggle_like(v) makes v liked when it was not and not liked when
\* it was, answers is_liked as v's membership after the call, changes the
\* membership of no other id and leaves the playlists unchanged; and a
\* second toggle_like(v) gives back the liked set the first one found.
C37_ToggleLikeInvolution ==
    /\ [][\A video_id \in {1, 2} :
              ToggleLike(Listener, video_id) =>
                  /\ video_id \in likes'[Listener].liked_songs
                         <=> video_id \notin likes[Listener].liked_songs
                  /\ last'.status = 200
                  /\ last'.is_liked
                         <=> video_id \in likes'[Listener].liked_songs
                  /\ likes'[Listener].liked_songs \ {video_id}
                         = likes[Listener].liked_songs \ {video_id}
                  /\ likes'[Listener].playlists
                         = likes[Listener].playlists]_vars
    /\ [](\A video_id \in {1, 2} :
              toggle_like(toggle_like(likes[Listener], video_id),
                          video_id).liked_songs
                  = likes[Listener].liked_songs)

\* C37 witness: a liked song was toggled and is not liked any more, while
\* the other liked song and the playlist with its song are still there
C37_Witness ==
    /\ last.op = "toggle_like"
    /\ last.status = 200
    /\ ~last.is_liked
    /\ likes[last.user].liked_songs = {1, 2} \ {last.videoId}
    /\ Len(likes[last.user].playlists) = 1
    /\ likes[last.user].playlists[1].songs # <<>>

\* C39: create_playlist appends one playlist without songs behind the
\* user's playlists, which stay as they are, and changes neither the liked
\* set nor anything else; and no request takes a playlist away: the
\* playlists a user has keep their place and id in every step.
C39_PlaylistsOnlyGrow ==
    /\ [][\A u \in Users :
              CreatePlaylist(u, "mix") =>
                  /\ last'.status = 201
                  /\ likes'[u].playlists
                         = Append(likes[u].playlists,
                                  [id |-> now, name |-> "mix", songs |-> <<>>])
                  /\ likes'[u].liked_songs = likes[u].liked_songs
                  /\ \A v \in Users \ {u} : likes'[v] = likes[v]
                  /\ UNCHANGED <<links, popular, history, admin_config>>]_vars
    /\ [][\A u \in Users :
              /\ Len(likes'[u].playlists) >= Len(likes[u].playlists)
              /\ \A k \in 1..Len(likes[u].playlists) :
                     /\ likes'[u].playlists[k].id = likes[u].playlists[k].id
                     /\ likes'[u].playlists[k].name
                            = likes[u].playlists[k].name]_vars

\* C39 witness: a second playlist was created for a user who has a liked
\* song and a first playlist with a song
C39_Witness ==
    /\ last.op = "create_playlist"
    /\ last.status = 201
    /\ Len(likes[last.user].playlists) = 2
    /\ likes[last.user].playlists[1].songs # <<>>
    /\ likes[last.user].playlists[2].songs = <<>>
    /\ likes[last.user].liked_songs # {}

---------------------------------------------------------------------------
(* SpecScenario: two artists' catalogs, five tracks of Foo to play and one *)
(* track of Bar to like                                                    *)

FooCatalog ==
    Listing(<<GoodItem(1), GoodItem(3), GoodItem(5), GoodItem(7), GoodItem(9)>>)
BarCatalog == Listing(<<GoodItem(2), GoodItem(4)>>)
ScenarioIds == {1, 2, 3, 4, 5, 7, 9}

\* the listener goes through Foo's catalog forwards, skipping at will
Unplayed(u) ==
    {v \in {1, 3, 5, 7, 9} : \A i \in 1..Len(history[u]) : history[u][i].videoId < v}

NextScenario ==
    \/ FetchAndSaveArtistTracks("Foo", FooCatalog)
    \/ FetchAndSaveArtistTracks("Bar", BarCatalog)
    \/ \E video_id \in Unplayed(Listener) : LogPlay(Listener, video_id)
    \/ ToggleLike(Listener, 2)
    \/ \E limit \in {MaxLimit, DefaultLimit}, prov \in SongAnswers(ScenarioIds),
              liked_order \in Orders(likes[Listener].liked_songs) :
           GetRecommendations(Listener, limit, prov, liked_order)

SpecScenario == Init /\ [][NextScenario]_vars

\* the artists of the record an id resolved to during the last call
\* (none when it did not resolve)
ResolvedArtists(video_id) ==
    Range(get_song_details(links, popular, video_id, last.prov[video_id]).song.artists)

\* the number of the user's history entries that resolved to this artist
PlaysOf(u, artist) ==
    Cardinality({i \in 1..Len(history[u]) :
                     artist \in ResolvedArtists(history[u][i].videoId)})

\* the number of the user's liked tracks that resolved to this artist
LikesOf(u, artist) ==
    Cardinality({v \in likes[u].liked_songs : artist \in ResolvedArtists(v)})

\* C6: in the score table of get_recommendations a liked track counts 5
\* times a played track: an artist with one liked track and no play scores
\* 5 times an artist with one played track and no like, and the same as an
\* artist with 5 distinct played tracks and no like.
C6_LikeIsFivePlays ==
    last.op = "get_recommendations" =>
        \A a, b \in DOMAIN last.scores :
            (/\ LikesOf(last.user, a) = 1 /\ PlaysOf(last.user, a) = 0
             /\ LikesOf(last.user, b) = 0) =>
                /\ PlaysOf(last.user, b) = 1 => last.scores[a] = 5 * last.scores[b]
                /\ PlaysOf(last.user, b) = 5 => last.scores[a] = last.scores[b]

\* C6 witness: one artist liked once, another played 5 times
C6_Witness ==
    /\ last.op = "get_recommendations"
    /\ \E a, b \in DOMAIN last.scores :
           /\ LikesOf(last.user, a) = 1 /\ PlaysOf(last.user, a) = 0
           /\ LikesOf(last.user, b) = 0 /\ PlaysOf(last.user, b) = 5

\* the scenario of C8: two plays, both by Foo alone, and one like, by Bar alone
FooFooBar(u) ==
    /\ Len(history[u]) = 2
    /\ \A i \in 1..2 :
           get_song_details(links, popular, history[u][i].videoId,
                            last.prov[history[u][i].videoId]).song.artists = <<"Foo">>
    /\ Cardinality(likes[u].liked_songs) = 1
    /\ \A v \in likes[u].liked_songs :
           get_song_details(links, popular, v, last.prov[v]).song.artists = <<"Bar">>

IsBy(song, artist) == artist \in Range(song.artists)

\* C8 as claimed: in the scenario the list excludes A, B and C, and every
\* track by Bar precedes every track by Foo only.
C8_BarTracksFirst ==
    (last.op = "get_recommendations" /\ FooFooBar(last.user)) =>
        /\ \A i \in 1..Len(last.result) :
               last.result[i].videoId \notin Heard(last.user)
        /\ \A i, j \in 1..Len(last.result) :
               (/\ IsBy(last.result[i], "Bar")
                /\ IsBy(last.result[j], "Foo") /\ ~IsBy(last.result[j], "Bar")) =>
                   i < j

\* C8 as amended: in the scenario the scores are Foo 2 and Bar 5, the list
\* excludes A, B and C, and it starts with the Track Store's tracks by Bar
\* or Foo taken in Track Store order, up to the limit.
C8_StoreOrderKept ==
    (last.op = "get_recommendations" /\ FooFooBar(last.user)) =>
        LET qualifying ==
                SelectSeq(links,
                          LAMBDA song : /\ song.videoId \notin Heard(last.user)
                                        /\ (IsBy(song, "Bar") \/ IsBy(song, "Foo")))
        IN  /\ last.scores["Foo"] = 2 /\ last.scores["Bar"] = 5
            /\ \A i \in 1..Len(last.result) :
                   last.result[i].videoId \notin Heard(last.user)
            /\ Len(last.result) >= Min(Len(qualifying), last.limit)
            /\ \A i \in 1..Min(Len(qualifying), last.limit) :
                   last.result[i] = qualifying[i]

\* C8 witness: in the scenario a track by Foo is returned before one by Bar
C8_Witness ==
    /\ last.op = "get_recommendations"
    /\ FooFooBar(last.user)
    /\ \E i, j \in 1..Len(last.result) :
           /\ i < j
           /\ IsBy(last.result[i], "Foo") /\ ~IsBy(last.result[i], "Bar")
           /\ IsBy(last.result[j], "Bar")

---------------------------------------------------------------------------
(* SpecRace: two threads that ingest the artists Foo and Bar and ask for    *)
(* the details of track 1, sharing the Track Store file                    *)

NextRace ==
    \/ \E w \in Workers, artist_name \in {"Foo", "Bar"} :
           \E answer \in FewListings(artist_name) :
               IngestRead(w, artist_name, answer)
    \/ \E w \in Workers, answer \in {"ok", "fail"} : DetailsRead(w, 1, answer)
    \/ \E w \in Workers : CacheCheck(w)
    \/ \E w \in Workers : WriteLinks(w)

SpecRace == Init /\ [][NextRace]_vars

\* C11: in every reachable state, whatever the interleaving of the
\* ingestions and the cache-fill, no two records of the Track Store have
\* the same track id.
C11_TrackIdsUnique ==
    \A i, j \in 1..Len(links) : links[i].videoId = links[j].videoId => i = j

\* C11 witness: a worker has rewritten the file from a snapshot that was
\* out of date, and every id of the content it replaced is in what it wrote
C11_Witness ==
    /\ last.op = "write_json"
    /\ last.stale
    /\ ~last.lost
    /\ links # <<>>

\* C12: a track that is in the Track Store is in the Track Store, with the
\* same record, after every step of every interleaving of the ingestions
\* and the cache-fills.
C12_StoredTracksKept ==
    [][\A i \in 1..Len(links) : \E j \in 1..Len(links') : links'[j] = links[i]]_vars

---------------------------------------------------------------------------
(* SpecEngine: the recommendation engine for a listener who plays and      *)
(* likes the tracks 1 and 2, over the stores the jobs fill                 *)

EngineIds == {1, 2}

NextEngine ==
    \/ \E answer \in FewCharts : UpdatePopularTracks(answer)
    \/ \E artist_name \in {"Foo", "Bar"} :
           \E answer \in FewListings(artist_name) :
               FetchAndSaveArtistTracks(artist_name, answer)
    \/ \E video_id \in EngineIds : LogPlay(Listener, video_id)
    \/ \E video_id \in EngineIds : ToggleLike(Listener, video_id)
    \/ \E limit \in 0..MaxLimit, prov \in SongAnswers(EngineIds),
              liked_order \in Orders(likes[Listener].liked_songs) :
           GetRecommendations(Listener, limit, prov, liked_order)

SpecEngine == Init /\ [][NextEngine]_vars

\* how the last call of get_recommendations resolved an id
ResolvedFrom(video_id) ==
    get_song_details(links, popular, video_id, last.prov[video_id]).source

\* C13: a call of get_recommendations leaves the Track Store, the
\* Popularity Feed, the tracked-artist list and every user's history and
\* likes/playlists documents as they were, also when the provider resolves
\* a track for it.
C13_RecommendationsPureRead ==
    [][last'.op = "get_recommendations" =>
           UNCHANGED <<links, popular, admin_config, history, likes>>]_vars

\* C13 witness: the call resolved a played or liked track at the provider,
\* with tracks in both stores
C13_Witness ==
    /\ last.op = "get_recommendations"
    /\ \E video_id \in Heard(last.user) : ResolvedFrom(video_id) = "provider"
    /\ links # <<>>
    /\ popular # <<>>


\* the top artists of the last call of get_recommendations
LastTop ==
    Range(TopOf(ArtistScores(history[last.user], last.liked_order,
                             links, popular, last.prov)))

\* C19: get_recommendations returns at most `limit` tracks (limit >= 0),
\* each a record of the Track Store or of the Popularity Feed; when the
\* scored path returns fewer than `limit`, every Track Store track by a
\* top artist that the user has neither played nor liked is in the result,
\* and every Popularity Feed entry has its id in the result, in the
\* history or in the likes.
C19_ResultSizeAndContent ==
    last.op = "get_recommendations" =>
        /\ Len(last.result) <= last.limit
        /\ \A k \in 1..Len(last.result) :
               last.result[k] \in Range(links) \cup Range(popular)
        /\ (last.path = "scored" /\ Len(last.result) < last.limit) =>
               /\ \A i \in 1..Len(links) :
                      (/\ links[i].videoId \notin Heard(last.user)
                       /\ Range(links[i].artists) \cap LastTop # {}) =>
                          links[i] \in Range(last.result)
               /\ \A i \in 1..Len(popular) :
                      popular[i].videoId
                          \in IdsOf(last.result) \cup Heard(last.user)

\* C19 witness: the scored path returned fewer tracks than asked for,
\* among them a feed entry, while another feed entry was left out because
\* the user has played or liked it
C19_Witness ==
    /\ last.op = "get_recommendations"
    /\ last.path = "scored"
    /\ last.result # <<>>
    /\ Len(last.result) < last.limit
    /\ \E i \in 1..Len(popular) : popular[i] \in Range(last.result)
    /\ \E i \in 1..Len(popular) : popular[i].videoId \in Heard(last.user)

\* C20: when the user has history or likes and no artist was scored
\* (nothing resolved, or what resolved lists no artist), the answer is the
\* first `limit` entries of the Popularity Feed, in feed order.
C20_NoScoresFallsBackToFeed ==
    (/\ last.op = "get_recommendations"
     /\ Heard(last.user) # {}
     /\ \A v \in Heard(last.user) :
            ResolvedFrom(v) = "none" \/ ResolvedArtists(v) = {}) =>
        /\ last.path = "no_scores"
        /\ Len(last.result) = Min(last.limit, Len(popular))
        /\ \A k \in 1..Len(last.result) : last.result[k] = popular[k]

\* C20 witness: a track that resolved without artists and a track that did
\* not resolve, more feed entries than asked for, one of them returned
C20_Witness ==
    /\ last.op = "get_recommendations"
    /\ last.path = "no_scores"
    /\ \E v \in Heard(last.user) : ResolvedFrom(v) # "none"
    /\ Len(popular) > last.limit
    /\ last.result # <<>>


\* the Track Store tracks that qualify for the listener of the last call:
\* neither played nor liked, and by one of the top artists
Qualifying ==
    SelectSeq(links,
              LAMBDA song : /\ song.videoId \notin Heard(last.user)
                            /\ Range(song.artists) \cap LastTop # {})

\* C21: on the scored path the answer starts with the Track Store tracks
\* whose id is neither in the history nor in the likes and that list a top
\* artist, all of them (up to `limit`) and no other, in Track Store order;
\* whatever follows them was taken from the Popularity Feed.
C21_StoreTracksSelectedFirst ==
    (last.op = "get_recommendations" /\ last.path = "scored") =>
        LET n == Min(Len(Qualifying), last.limit)
        IN  /\ Len(last.result) >= n
            /\ \A k \in 1..n : last.result[k] = Qualifying[k]
            /\ \A k \in (n + 1)..Len(last.result) :
                   /\ last.result[k] \in Range(popular)
                   /\ last.result[k] \notin Range(Qualifying)

\* C21 witness: a stored track by a top artist is recommended ahead of a
\* feed entry, while another stored track was played or liked and is left out
C21_Witness ==
    /\ last.op = "get_recommendations"
    /\ last.path = "scored"
    /\ Len(Qualifying) = 1
    /\ Len(last.result) = 2
    /\ last.result[2] \in Range(popular)
    /\ \E i \in 1..Len(links) :
           /\ links[i].videoId \in Heard(last.user)
           /\ Range(links[i].artists) \cap LastTop # {}


\* the places of the Popularity Feed whose entry can be added for the
\* listener of the last call: its id is not played, not liked, not the id
\* of a qualifying Track Store track nor of an earlier feed entry
Addable ==
    {i \in 1..Len(popular) :
        /\ popular[i].videoId \notin Heard(last.user) \cup IdsOf(Qualifying)
        /\ \A j \in 1..(i - 1) : popular[j].videoId # popular[i].videoId}

\* the k-th smallest place of Addable
NthAddable(k) ==
    CHOOSE i \in Addable : Cardinality({j \in Addable : j <= i}) = k

\* C22: on the scored path feed entries are returned only when fewer than
\* `limit` Track Store tracks qualify; they follow the qualifying tracks,
\* in feed order, without the entries whose id is already selected, played
\* or liked, and as many of them as fit under `limit` or as the feed has.
C22_TopUpFromFeed ==
    (last.op = "get_recommendations" /\ last.path = "scored") =>
        LET n == Min(Len(Qualifying), last.limit)
            room == last.limit - n
            m == Min(Cardinality(Addable), room)
        IN  /\ Len(last.result) = n + m
            /\ \A k \in 1..m : last.result[n + k] = popular[NthAddable(k)]

\* C22 witness: the feed was exhausted before `limit`: one entry was
\* added, an entry with the same id further down was not, and an entry
\* the user has played or liked was left out
C22_Witness ==
    /\ last.op = "get_recommendations"
    /\ last.path = "scored"
    /\ Len(last.result) < last.limit
    /\ \E i, j \in 1..Len(popular) :
           /\ i < j
           /\ popular[i].videoId = popular[j].videoId
           /\ popular[i] \in Range(last.result)
    /\ \E i \in 1..Len(popular) : popular[i].videoId \in Heard(last.user)


\* the artists of the records the played and liked ids of the listener of
\* the last call resolved to
HeardArtists == UNION {ResolvedArtists(v) : v \in Heard(last.user)}

\* C23: in the score table of get_recommendations every artist has the
\* number of history entries that resolved to a record listing the artist
\* plus 5 times the number of liked tracks that did, and no other artist
\* is scored; an id that does not resolve adds nothing and the ids after
\* it are still counted.
C23_ScoreIsPlaysPlusFiveLikes ==
    (last.op = "get_recommendations" /\ Heard(last.user) # {}) =>
        /\ DOMAIN last.scores = HeardArtists
        /\ \A a \in HeardArtists :
               last.scores[a] = PlayWeight * PlaysOf(last.user, a)
                                    + LikeWeight * LikesOf(last.user, a)

\* C23 witness: an artist with one played and one liked track scores 6,
\* and the first id of the history did not resolve
C23_Witness ==
    /\ last.op = "get_recommendations"
    /\ \E a \in DOMAIN last.scores :
           /\ last.scores[a] = PlayWeight + LikeWeight
           /\ PlaysOf(last.user, a) = 1
    /\ Len(history[last.user]) = 2
    /\ ResolvedFrom(history[last.user][1].videoId) = "none"

---------------------------------------------------------------------------
(* The tracked-artist list and the thread of background_track_updater *)

\* a file on disk is lost, emptied or overwritten with something else; a
\* document that cannot be read holds nothing
DamageConfig(cond) ==
    /\ files' = [files EXCEPT !.config = cond]
    /\ admin_config' = <<>>
    /\ UNCHANGED <<links, popular, history, likes, now, last, updater, calls>>

\* admin_panel, POST by the administrator: the ingestion thread is started
\* (on worker w), then the artist is appended to the list when absent
AdminPanel(w, artist_name) ==
    /\ IF artist_name = ""
       THEN /\ last' = [op |-> "admin_panel", artist |-> artist_name,
                        status |-> IF files.config = "undecodable"
                                   THEN 500 ELSE 200]
            /\ UNCHANGED <<admin_config, files, calls>>
       ELSE /\ calls[w].pc = "idle"
            /\ calls' = [calls EXCEPT ![w] =
                            [pc |-> "spawned", artist |-> artist_name]]
            /\ IF files.config = "undecodable"
               THEN /\ last' = [op |-> "admin_panel", artist |-> artist_name,
                                status |-> 500]
                    /\ UNCHANGED <<admin_config, files>>
               ELSE /\ last' = [op |-> "admin_panel", artist |-> artist_name,
                                status |-> 302]
                    /\ IF artist_name \in Range(admin_config)
                       THEN UNCHANGED <<admin_config, files>>
                       ELSE /\ admin_config' = Append(admin_config, artist_name)
                            /\ files' = [files EXCEPT !.config = "ok"]
    /\ UNCHANGED <<links, popular, history, likes, now, updater>>

\* an ingestion that ends in the except clause of fetch_and_save_artist_tracks
IngestFails(links_data, answer) ==
    \/ answer.kind = "error"
    \/ /\ answer.kind = "listing"
       /\ TracksToAdd(answer.items, 1, ExistingIds(links_data), 0).raised

\* mutant: a failed ingestion ends the cycle
CycleGoesOn_UntilFailure(ingest_failed) == ~ingest_failed

\* whether the `for artist_name in artists` loop goes on after an
\* ingestion: fetch_and_save_artist_tracks catches what is raised in it
CycleGoesOn(ingest_failed) == TRUE

\* background_track_updater, top of the while loop: the list is read
UpdaterReadConfig ==
    /\ updater.pc = "cycle"
    /\ updater' =
           IF files.config = "undecodable"
           THEN [pc |-> "sleep", artists |-> <<>>, attempted |-> <<>>,
                 failed |-> <<>>, raised |-> TRUE]
           ELSE [pc |-> IF admin_config = <<>> THEN "sleep" ELSE "ingest",
                 artists |-> admin_config, attempted |-> <<>>,
                 failed |-> <<>>, raised |-> FALSE]
    /\ UNCHANGED <<links, popular, history, likes, now, last,
                   admin_config, files, calls>>

\* background_track_updater, one turn of the for loop: the next artist of
\* the list that was read is ingested
UpdaterIngest(answer) ==
    /\ updater.pc = "ingest"
    /\ LET artist_name == updater.artists[Len(updater.attempted) + 1]
           ingest_failed == IngestFails(links, answer)
           attempted == Append(updater.attempted, artist_name)
       IN  /\ answer \in UpdaterListings(artist_name)
           /\ links' = fetch_and_save_artist_tracks(links, answer, now)
           /\ updater' =
                  [pc |-> IF /\ Len(attempted) < Len(updater.artists)
                             /\ CycleGoesOn(ingest_failed)
                          THEN "ingest" ELSE "sleep",
                   artists |-> updater.artists, attempted |-> attempted,
                   failed |-> Append(updater.failed, ingest_failed),
                   raised |-> ingest_failed /\ ~CycleGoesOn(ingest_failed)]
    /\ UNCHANGED <<popular, history, likes, now, last, admin_config, files, calls>>

\* background_track_updater: time.sleep(3 * 60 * 60) returns
UpdaterWake ==
    /\ updater.pc = "sleep"
    /\ updater' = [updater EXCEPT !.pc = "cycle"]
    /\ UNCHANGED <<links, popular, history, likes, now, last,
                   admin_config, files, calls>>

---------------------------------------------------------------------------
(* SpecUpdater: the background job, the administrator who adds artists and *)
(* the ingestion thread admin_panel starts (one at a time, on worker t1)   *)

UpdaterStep ==
    \/ UpdaterReadConfig
    \/ \E artist_name \in {"Foo", "Bar"} :
           \E answer \in UpdaterListings(artist_name) : UpdaterIngest(answer)
    \/ UpdaterWake

NextUpdater ==
    \/ UpdaterStep
    \/ \E artist_name \in {"Foo", "Bar", ""} : AdminPanel("t1", artist_name)
    \/ \E artist_name \in {"Foo", "Bar"} :
           \E answer \in FewListings(artist_name) :
               calls["t1"].pc = "spawned" /\ IngestRead("t1", artist_name, answer)
    \/ WriteLinks("t1")
    \/ DamageConfig("undecodable")

\* the thread of the background job is scheduled again and again; the
\* provider answers or raises, and time.sleep returns
SpecUpdater == Init /\ [][NextUpdater]_vars /\ WF_vars(UpdaterStep)

\* C15: when a cycle of the background job ends, every artist of the list
\* read at its start has been attempted, in order, whatever ingestions
\* failed; only a list that cannot be read ends a cycle early, before any
\* artist; and the job never stops: after every cycle, failed or not, a
\* next cycle starts.
C15_UpdaterIsolatesFailures ==
    /\ []((updater.pc = "sleep" /\ ~updater.raised) =>
              updater.attempted = updater.artists)
    /\ []((updater.pc = "ingest") =>
              /\ Len(updater.attempted) < Len(updater.artists)
              /\ \A i \in 1..Len(updater.attempted) :
                     updater.attempted[i] = updater.artists[i])
    /\ [](updater.raised =>
              files.config = "undecodable" /\ updater.attempted = <<>>)
    /\ (updater.pc = "sleep") ~> (updater.pc = "cycle")
    /\ (updater.pc = "cycle") ~> (updater.pc = "sleep")

\* C15 witness: a cycle has ended in which the ingestion of the first
\* artist failed and the second artist was attempted
C15_Witness ==
    /\ updater.pc = "sleep"
    /\ Len(updater.attempted) = 2
    /\ updater.failed[1]
    /\ ~updater.failed[2]

---------------------------------------------------------------------------
(* SpecPartial: ingestion of listings that mix well-formed and malformed  *)
(* entries of any track                                                    *)

\* the entries of a listing: songs and collaborations, an entry of one
\* more track that cannot be converted, an entry without an id
MixedItems ==
    {GoodItem(id) : id \in VideoIds} \cup {BrokenItem(MaxId + 1), NoIdItem}

MixedAnswers ==
    {ProviderError, Unavailable, NoArtistFound}
        \cup {Listing(s) : s \in SeqUpTo(MixedItems, MaxListing)}

NextPartial ==
    \E answer \in MixedAnswers : FetchAndSaveArtistTracks("Foo", answer)

SpecPartial == Init /\ [][NextPartial]_vars

\* C16: an ingestion in which the provider fails (the search or the artist
\* fetch raises, or the listing holds an entry with a new id that cannot be
\* converted) leaves the Track Store exactly as it was: no track of the
\* listing is written and the tracks stored before are all there.
C16_NoPartialIngestion ==
    [][(/\ last'.op = "fetch_and_save_artist_tracks"
        /\ \/ last'.answer.kind = "error"
           \/ /\ last'.answer.kind = "listing"
              /\ \E i \in 1..Len(last'.answer.items) :
                     /\ last'.answer.items[i].videoId # NoId
                     /\ last'.answer.items[i].videoId \notin IdsOf(links)
                     /\ Raises(last'.answer.items[i], TRUE)
                     /\ \A j \in 1..(i - 1) :
                            last'.answer.items[j].videoId
                                # last'.answer.items[i].videoId) =>
           links' = links]_vars

\* C16 witness: over a store that holds tracks, a listing failed at its
\* second entry after a first entry that was new and well-formed
C16_Witness ==
    /\ last.op = "fetch_and_save_artist_tracks"
    /\ links # <<>>
    /\ last.answer.kind = "listing"
    /\ Len(last.answer.items) = 2
    /\ last.answer.items[1].videoId \notin IdsOf(links) \cup {NoId}
    /\ ~Raises(last.answer.items[1], TRUE)
    /\ last.answer.items[2].videoId
           \notin IdsOf(links) \cup {NoId, last.answer.items[1].videoId}
    /\ Raises(last.answer.items[2], TRUE)

---------------------------------------------------------------------------
(* SpecStorage: the per-user documents when their files are lost, emptied  *)
(* or overwritten between two calls                                        *)

\* a user's history file is lost, emptied or overwritten
DamageHistory(u, cond) ==
    /\ files' = [files EXCEPT !.history[u] = cond]
    /\ history' = [history EXCEPT ![u] = <<>>]
    /\ UNCHANGED <<links, popular, likes, now, last, threads>>

\* a user's likes and playlists file is lost, emptied or overwritten
DamageLikes(u, cond) ==
    /\ files' = [files EXCEPT !.likes[u] = cond]
    /\ likes' = [likes EXCEPT ![u] = NoLikes]
    /\ UNCHANGED <<links, popular, history, now, last, threads>>

NextStorage ==
    \/ \E u \in {"u1"}, cond \in Conditions \ {"ok"} : DamageHistory(u, cond)
    \/ \E u \in {"u1"}, cond \in Conditions \ {"ok"} : DamageLikes(u, cond)
    \/ \E u \in {"u1"}, video_id \in {1, NoId} : LogPlay(u, video_id)
    \/ \E u \in {"u1"}, video_id \in {1, NoId} : ToggleLike(u, video_id)
    \/ \E u \in {"u1"}, playlist_name \in {"mix", ""} :
           CreatePlaylist(u, playlist_name)
    \/ \E u \in {"u1"}, playlist_id \in {NoStamp, 0}, video_id \in {1, NoId} :
           AddSongToPlaylist(u, playlist_id, video_id)

SpecStorage == Init /\ [][NextStorage]_vars

\* C17: whatever the condition of a user's history file or likes and
\* playlists file (missing, empty, not JSON, not UTF-8), log_play,
\* toggle_like, create_playlist and add_song_to_playlist answer without an
\* exception reaching the caller (no HTTP 500).
C17_NoReadRaises ==
    last.op \in {"log_play", "toggle_like", "create_playlist",
                 "add_song_to_playlist"} => last.status # 500

\* C35: log_play and toggle_like without videoId, create_playlist without
\* name and add_song_to_playlist without playlistId or videoId answer 400
\* and change no store, whatever the condition of the user's files: no
\* file is read before the answer.
C35_MissingFieldRejected ==
    [][(\/ LogPlay(Listener, NoId)
        \/ ToggleLike(Listener, NoId)
        \/ CreatePlaylist(Listener, "")
        \/ \E playlist_id \in {NoStamp, 0}, video_id \in {1, NoId} :
               /\ playlist_id = NoStamp \/ video_id = NoId
               /\ AddSongToPlaylist(Listener, playlist_id, video_id)) =>
          /\ last'.status = 400
          /\ UNCHANGED <<links, popular, history, likes, admin_config, files>>]_vars

\* C35 witness: a log_play without videoId was answered 400 while the
\* user's history file could not have been read
C35_Witness ==
    /\ last.op = "log_play"
    /\ last.videoId = NoId
    /\ last.status = 400
    /\ files.history[last.user] = "undecodable"

---------------------------------------------------------------------------
(* SpecTie: a listener who likes two tracks of three artists each, so     *)
(* that six artists are scored 5 and the fifth rank is tied               *)

TrioA == RawTrack(1, <<"A1", "A2", "A3">>, Missing, <<"img=w120-h120">>)
TrioB == RawTrack(2, <<"B1", "B2", "B3">>, Missing, <<"img=w120-h120">>)
SoloA == RawTrack(3, <<"A3">>, Missing, <<"img=w120-h120">>)
SoloB == RawTrack(4, <<"B3">>, Missing, <<"img=w120-h120">>)
TieCatalogs ==
    {Listing(<<TrioA, SoloA>>), Listing(<<TrioB, SoloB>>),
     Listing(<<GoodItem(1), GoodItem(2), GoodItem(3), GoodItem(4)>>)}
TieIds == {1, 2, 3, 4}

NextTie ==
    \/ \E answer \in TieCatalogs : FetchAndSaveArtistTracks("Foo", answer)
    \/ \E video_id \in {1, 2} : ToggleLike(Listener, video_id)
    \/ \E video_id \in {1, 3} : LogPlay(Listener, video_id)
    \/ \E limit \in {MaxLimit}, prov \in SongAnswers(TieIds),
              liked_order \in Orders(likes[Listener].liked_songs) :
           GetRecommendations(Listener, limit, prov, liked_order)

SpecTie == Init /\ [][NextTie]_vars

\* C18 as stated: two calls of get_recommendations in a row, for the same
\* user and limit, with the same provider answers and nothing written in
\* between, return the same sequence of tracks.
C18_SameInputsSameResult ==
    [][(/\ last.op = "get_recommendations"
        /\ last'.op = "get_recommendations"
        /\ last'.user = last.user
        /\ last'.limit = last.limit
        /\ last'.prov = last.prov) =>
           last'.result = last.result]_vars

\* C18, amended: two such calls return the same sequence of tracks when at
\* most 5 artists are scored, in whatever order the liked ids are iterated.
C18_SameResultUpToFiveArtists ==
    [][(/\ last.op = "get_recommendations"
        /\ last'.op = "get_recommendations"
        /\ last'.user = last.user
        /\ last'.limit = last.limit
        /\ last'.prov = last.prov
        /\ Cardinality(DOMAIN last'.scores) <= TopArtists) =>
           last'.result = last.result]_vars

\* C18 witness: the second of two calls in a row that iterated two liked
\* ids in different orders, with two to five artists scored, two of them
\* equally, and a track recommended
C18_Witness ==
    /\ last.op = "get_recommendations"
    /\ last.reordered
    /\ last.path = "scored"
    /\ Cardinality(DOMAIN last.scores) \in 2..TopArtists
    /\ \E a, b \in DOMAIN last.scores : a # b /\ last.scores[a] = last.scores[b]
    /\ last.result # <<>>

\* C24: the top artists of get_recommendations are scored artists, 5 of
\* them or all when fewer are scored, and none of them has a lower score
\* than a scored artist that is not among them.
C24_TopFiveByScore ==
    (last.op = "get_recommendations" /\ last.path = "scored") =>
        /\ LastTop \subseteq DOMAIN last.scores
        /\ Cardinality(LastTop)
               = Min(TopArtists, Cardinality(DOMAIN last.scores))
        /\ \A a \in LastTop : \A b \in (DOMAIN last.scores) \ LastTop :
               last.scores[a] >= last.scores[b]

\* C24 witness: six artists are scored, one of them higher than the
\* others, and one of the lowest is not among the top artists
C24_Witness ==
    /\ last.op = "get_recommendations"
    /\ last.path = "scored"
    /\ Cardinality(DOMAIN last.scores) > TopArtists
    /\ \E a \in LastTop : \E b \in (DOMAIN last.scores) \ LastTop :
           last.scores[a] > last.scores[b]

---------------------------------------------------------------------------
(* SpecPlays: log_play requests of one user served by two threads, one     *)
(* file access per step                                                    *)

\* what a worker finds when it reads the user's history file: its content
\* or, while another worker is about to rewrite it, the default []
HistoryReadings(w, u) ==
    {history[u]} \cup IF \E v \in Workers \ {w} :
                             calls[v].pc = "write_history" /\ calls[v].user = u
                      THEN {<<>>} ELSE {}

\* log_play up to the list it will write: the id is checked, the history
\* is read, the id is filtered out and inserted in front
LogPlayRead(w, u, video_id) ==
    /\ calls[w].pc = "idle"
    /\ IF video_id = NoId
       THEN /\ last' = [op |-> "log_play", user |-> u, status |-> 400]
            /\ UNCHANGED calls
       ELSE /\ \E reading \in HistoryReadings(w, u) :
                   calls' = [calls EXCEPT ![w] =
                                [pc |-> "write_history", user |-> u,
                                 snapshot |-> reading,
                                 data |-> log_play(reading, video_id, now)]]
            /\ last' = [op |-> "read_json", user |-> u]
    /\ UNCHANGED <<links, popular, history, likes, now, admin_config, files,
                   updater>>

\* log_play: write_json(history_path, history[:500]) and the response
LogPlayWrite(w) ==
    /\ calls[w].pc = "write_history"
    /\ history' = [history EXCEPT ![calls[w].user] = calls[w].data]
    /\ calls' = [calls EXCEPT ![w] = NoCall]
    /\ last' = [op |-> "log_play", user |-> calls[w].user, status |-> 200,
                stale |-> history[calls[w].user] # calls[w].snapshot]
    /\ UNCHANGED <<links, popular, likes, now, admin_config, files, updater>>

NextPlays ==
    \/ \E w \in Workers, video_id \in VideoIds \cup {NoId} :
           LogPlayRead(w, Listener, video_id)
    \/ \E w \in Workers : LogPlayWrite(w)
    \/ Tick

SpecPlays == Init /\ [][NextPlays]_vars

\* C25: no history ever holds two entries with the same track id, however
\* the log_play requests of a user interleave.
C25_HistoryIdsUnique ==
    \A u \in Users : \A i, j \in 1..Len(history[u]) :
        history[u][i].videoId = history[u][j].videoId => i = j

\* C25 witness: a request wrote a history of two entries computed from a
\* reading that another request had overwritten in between
C25_Witness ==
    /\ last.op = "log_play"
    /\ last.status = 200
    /\ last.stale
    /\ Len(history[last.user]) >= 2

---------------------------------------------------------------------------
(* SpecChart: the Popularity Feed under chart answers of up to one entry    *)
(* more than was asked for                                                 *)

\* the number of entries get_chart is asked for
FeedCap == 50

\* a chart of n well-formed entries
ChartOf(n) == Listing([i \in 1..n |-> GoodItem(i)])

\* the lengths of the charts received: short ones, and those around the
\* number asked for
ChartSizes == (0..5) \cup ((FeedCap - 4)..(FeedCap + 1))

NextChart ==
    \E answer \in {ProviderError} \cup {ChartOf(n) : n \in ChartSizes} :
        UpdatePopularTracks(answer)

SpecChart == Init /\ [][NextChart]_vars

\* C27: the Popularity Feed never holds more than 50 entries, whatever the
\* number of entries of the charts the refreshes received.
C27_FeedAtMostFifty == Len(popular) <= FeedCap

---------------------------------------------------------------------------
(* SpecAdmin: add-artist requests of the administrator served by two       *)
(* threads, one file access per step                                       *)

\* what a worker finds when it reads ADMIN_CONFIG_FILE: its list, or the
\* default {"artists": []} while another worker is about to rewrite it
ConfigReadings(w) ==
    {admin_config} \cup IF \E v \in Workers \ {w} : calls[v].pc = "write_config"
                        THEN {<<>>} ELSE {}

\* admin_panel, POST, up to write_json: the ingestion thread is started,
\* the list is read and the name appended to it when it is not there. The
\* slot of a request that has ended holds the ingestion thread it started.
AdminRead(w, artist_name) ==
    /\ calls[w].pc = "idle"
    /\ IF artist_name = ""
       THEN /\ last' = [op |-> "admin_panel", artist |-> artist_name,
                        status |-> 200]
            /\ UNCHANGED calls
       ELSE IF read_json_raises(files.config)
       THEN /\ last' = [op |-> "admin_panel", artist |-> artist_name,
                        status |-> 500]
            /\ calls' = [calls EXCEPT ![w] =
                            [pc |-> "spawned", artist |-> artist_name]]
       ELSE \E reading \in ConfigReadings(w) :
                IF artist_name \in Range(reading)
                THEN /\ last' = [op |-> "admin_panel", artist |-> artist_name,
                                 status |-> 302]
                     /\ calls' = [calls EXCEPT ![w] =
                                     [pc |-> "spawned", artist |-> artist_name]]
                ELSE /\ last' = [op |-> "read_json", artist |-> artist_name]
                     /\ calls' = [calls EXCEPT ![w] =
                                     [pc |-> "write_config",
                                      artist |-> artist_name,
                                      data |-> Append(reading, artist_name)]]
    /\ UNCHANGED <<links, popular, history, likes, now, admin_config, files,
                   updater>>

\* admin_panel: write_json(ADMIN_CONFIG_FILE, admin_config) and the redirect
AdminWrite(w) ==
    /\ calls[w].pc = "write_config"
    /\ admin_config' = calls[w].data
    /\ files' = [files EXCEPT !.config = "ok"]
    /\ calls' = [calls EXCEPT ![w] =
                    [pc |-> "spawned", artist |-> calls[w].artist]]
    /\ last' = [op |-> "admin_panel", artist |-> calls[w].artist,
                status |-> 302]
    /\ UNCHANGED <<links, popular, history, likes, now, updater>>

NextAdmin ==
    \/ \E w \in Workers, artist_name \in {"Foo", "Bar", ""} :
           AdminRead(w, artist_name)
    \/ \E w \in Workers : AdminWrite(w)
    \/ \E w \in Workers, artist_name \in {"Foo", "Bar"} :
           \E answer \in FewListings(artist_name) :
               /\ calls[w].pc = "spawned"
               /\ IngestRead(w, artist_name, answer)
    \/ \E w \in Workers : WriteLinks(w)

SpecAdmin == Init /\ [][NextAdmin]_vars

\* C28: the tracked-artist list never holds a name twice, a request that
\* adds a name the list holds leaves the list unchanged, and no step takes
\* a name out of the list, in every interleaving of the add-artist requests.
C28_AppendIfAbsent ==
    /\ [](\A i, j \in 1..Len(admin_config) :
              admin_config[i] = admin_config[j] => i = j)
    /\ [][\A w \in Workers :
              (AdminWrite(w) /\ calls[w].artist \in Range(admin_config)) =>
                  admin_config' = admin_config]_vars
    /\ [][Range(admin_config) \subseteq Range(admin_config')]_vars

---------------------------------------------------------------------------
(* SpecRequests: the requests of a listener and the two jobs, each run to  *)
(* its end before the next                                                 *)

\* api_song_details: the song is resolved and, when it was found and no
\* stored song has its id, written to LINKS_FILE with the stored songs
ApiSongDetails(video_id, answer) ==
    LET details == get_song_details(links, popular, video_id, answer)
    IN  /\ links' = IF details.source = "none" THEN links
                    ELSE CachedSongs(links, details.song, video_id, now)
        /\ last' = [op |-> "api_song_details", videoId |-> video_id,
                    status |-> IF details.source = "none" THEN 404 ELSE 200,
                    source |-> details.source]
        /\ UNCHANGED <<popular, history, likes, now, files, threads>>

\* the operations a listener's request runs
RequestOps ==
    {"api_song_details", "get_recommendations", "log_play", "toggle_like",
     "create_playlist", "add_song_to_playlist"}

NextRequests ==
    \/ UpdatePopularTracks(Listing(<<GoodItem(1), ArtistlessItem(2)>>))
    \/ \E answer \in FewListings("Foo") : FetchAndSaveArtistTracks("Foo", answer)
    \/ \E video_id \in VideoIds, answer \in {"ok", "fail"} :
           ApiSongDetails(video_id, answer)
    \/ \E prov \in SongAnswers(VideoIds),
              liked_order \in Orders(likes[Listener].liked_songs) :
           GetRecommendations(Listener, MaxLimit, prov, liked_order)
    \/ LogPlay(Listener, 1)
    \/ ToggleLike(Listener, 2)
    \/ CreatePlaylist(Listener, "mix")
    \/ AddSongToPlaylist(Listener, now, 1)

SpecRequests == Init /\ [][NextRequests]_vars

\* C29 as stated: no request of a listener changes the Track Store or the
\* Popularity Feed.
C29_RequestsLeaveStores ==
    [][last'.op \in RequestOps => (links' = links /\ popular' = popular)]_vars

\* C29: no request of a listener changes the Popularity Feed; the song
\* details request appends the song it resolved, stamped, behind the stored
\* songs when none of them has its id, and no other request changes the
\* Track Store.
C29_OnlySongDetailsFillsStore ==
    [][last'.op \in RequestOps =>
          /\ popular' = popular
          /\ last'.op # "api_song_details" => links' = links
          /\ last'.op = "api_song_details" =>
                 IF last'.status = 404 \/ last'.videoId \in IdsOf(links)
                 THEN links' = links
                 ELSE /\ Len(links') = Len(links) + 1
                      /\ SubSeq(links', 1, Len(links)) = links
                      /\ links'[Len(links')].videoId = last'.videoId
                      /\ links'[Len(links')].last_updated = now]_vars

\* C29 witness: a song details request has resolved a song outside the
\* Track Store and the store, which held a song, now holds it too
C29_Witness ==
    /\ last.op = "api_song_details"
    /\ last.source \in {"popular", "provider"}
    /\ Len(links) >= 2
    /\ links[Len(links)].videoId = last.videoId
    /\ \A i \in 1..(Len(links) - 1) : links[i].videoId # last.videoId

\* C31: a successful api_song_details for an id that is not in the Track
\* Store appends one record with that id behind the unchanged stored
\* records, after which get_song_details finds the id in the Track Store;
\* api_song_details for an id in the store, and one whose resolution
\* fails, leave the Track Store unchanged.
C31_CacheFillOnce ==
    [][\A video_id \in VideoIds : \A answer \in {"ok", "fail"} :
          ApiSongDetails(video_id, answer) =>
              /\ (last'.status = 200 /\ video_id \notin IdsOf(links)) =>
                     /\ Len(links') = Len(links) + 1
                     /\ SubSeq(links', 1, Len(links)) = links
                     /\ links'[Len(links')].videoId = video_id
                     /\ Cardinality({i \in 1..Len(links') :
                                        links'[i].videoId = video_id}) = 1
                     /\ \A again \in {"ok", "fail", "unavailable"} :
                            get_song_details(links', popular', video_id,
                                             again).source = "links"
              /\ video_id \in IdsOf(links) => links' = links
              /\ last'.status = 404 => links' = links]_vars

\* C31 witness: the provider resolved a song that neither store held, and
\* the Track Store, which held songs, ends with its record
C31_Witness ==
    /\ last.op = "api_song_details"
    /\ last.status = 200
    /\ last.source = "provider"
    /\ Len(links) >= 2
    /\ links[Len(links)] = [ProviderSong(last.videoId) EXCEPT !.last_updated = now]

---------------------------------------------------------------------------
(* SpecUsers: the requests of every account on its own documents *)

\* the requests that write a document of the user
WritingOps ==
    {"log_play", "toggle_like", "create_playlist", "add_song_to_playlist"}

NextUsers ==
    \/ \E u \in Accounts : LogPlay(u, 1)
    \/ \E u \in Accounts : ToggleLike(u, 1)
    \/ \E u \in Accounts : CreatePlaylist(u, "mix")
    \/ \E u \in Accounts : AddSongToPlaylist(u, now, 1)

SpecUsers == Init /\ [][NextUsers]_vars

\* C30: a log_play, toggle_like, create_playlist or add_song_to_playlist
\* of user u leaves the history and the likes/playlists of every other
\* user unchanged, and leaves unchanged the document of u it does not
\* target (likes/playlists for log_play, the history for the others).
C30_UserStoresIsolated ==
    [][\A u \in Accounts :
          (last'.op \in WritingOps /\ last'.user = u) =>
              /\ \A v \in Accounts \ {u} :
                     /\ history'[get_user_data_path(v)]
                            = history[get_user_data_path(v)]
                     /\ likes'[get_user_data_path(v)]
                            = likes[get_user_data_path(v)]
              /\ last'.op = "log_play" =>
                     likes'[get_user_data_path(u)] = likes[get_user_data_path(u)]
              /\ last'.op # "log_play" =>
                     history'[get_user_data_path(u)]
                         = history[get_user_data_path(u)]]_vars

---------------------------------------------------------------------------
(* SpecLikes: toggle_like, create_playlist and add_song_to_playlist        *)
(* requests of one user served by two threads, one file access per step    *)

\* mutant: the liked songs and playlists the file held are kept
write_json_Merged(content, data) ==
    [exists |-> TRUE,
     liked_songs |-> content.liked_songs \cup data.liked_songs,
     playlists |-> IF Len(content.playlists) > Len(data.playlists)
                   THEN content.playlists ELSE data.playlists]

\* the content of a file after write_json: open(file_path, 'w') drops what
\* the file held and json.dump writes the data
write_json(content, data) == data

\* what a worker finds when it reads the user's likes/playlists file: its
\* content or, while another worker is about to rewrite it, the default
LikesReadings(w, u) ==
    {likes[get_user_data_path(u)]}
        \cup IF \E v \in Workers \ {w} :
                    /\ calls[v].pc = "write_likes"
                    /\ get_user_data_path(calls[v].user) = get_user_data_path(u)
             THEN {NoLikes} ELSE {}

\* toggle_like up to write_json: the id is checked, the document is read
\* and the id is taken out of or put into liked_songs
ToggleLikeRead(w, u, video_id) ==
    /\ calls[w].pc = "idle"
    /\ IF video_id = NoId
       THEN /\ last' = [op |-> "toggle_like", user |-> u, status |-> 400]
            /\ UNCHANGED calls
       ELSE IF read_json_raises(files.likes[get_user_data_path(u)])
       THEN /\ last' = [op |-> "toggle_like", user |-> u, status |-> 500]
            /\ UNCHANGED calls
       ELSE /\ \E reading \in LikesReadings(w, u) :
                   calls' = [calls EXCEPT ![w] =
                                [pc |-> "write_likes", user |-> u,
                                 op |-> "toggle_like", status |-> 200,
                                 snapshot |-> reading,
                                 data |-> toggle_like(reading, video_id)]]
            /\ last' = [op |-> "read_json", user |-> u]
    /\ UNCHANGED <<links, popular, history, likes, now, admin_config, files,
                   updater>>

\* create_playlist up to write_json: the name is checked, the document is
\* read and the new playlist appended
CreatePlaylistRead(w, u, playlist_name) ==
    /\ calls[w].pc = "idle"
    /\ IF playlist_name = ""
       THEN /\ last' = [op |-> "create_playlist", user |-> u, status |-> 400]
            /\ UNCHANGED calls
       ELSE IF read_json_raises(files.likes[get_user_data_path(u)])
       THEN /\ last' = [op |-> "create_playlist", user |-> u, status |-> 500]
            /\ UNCHANGED calls
       ELSE /\ \E reading \in LikesReadings(w, u) :
                   /\ Len(reading.playlists) < MaxPlaylists
                   /\ calls' = [calls EXCEPT ![w] =
                                   [pc |-> "write_likes", user |-> u,
                                    op |-> "create_playlist", status |-> 201,
                                    snapshot |-> reading,
                                    data |-> create_playlist(
                                                 reading, playlist_name, now)]]
            /\ last' = [op |-> "read_json", user |-> u]
    /\ UNCHANGED <<links, popular, history, likes, now, admin_config, files,
                   updater>>

\* add_song_to_playlist up to write_json: the fields are checked, the
\* document is read and the playlist looked for
AddSongRead(w, u, playlist_id, video_id) ==
    /\ calls[w].pc = "idle"
    /\ IF playlist_id = NoStamp \/ video_id = NoId
       THEN /\ last' = [op |-> "add_song_to_playlist", user |-> u,
                        status |-> 400]
            /\ UNCHANGED calls
       ELSE IF read_json_raises(files.likes[get_user_data_path(u)])
       THEN /\ last' = [op |-> "add_song_to_playlist", user |-> u,
                        status |-> 500]
            /\ UNCHANGED calls
       ELSE \E reading \in LikesReadings(w, u) :
                IF FoundPlaylist(reading, playlist_id) = 0
                THEN /\ last' = [op |-> "add_song_to_playlist", user |-> u,
                                 status |-> 404]
                     /\ UNCHANGED calls
                ELSE /\ last' = [op |-> "read_json", user |-> u]
                     /\ calls' = [calls EXCEPT ![w] =
                                     [pc |-> "write_likes", user |-> u,
                                      op |-> "add_song_to_playlist",
                                      status |-> 200, snapshot |-> reading,
                                      data |-> add_song_to_playlist(
                                                   reading, playlist_id,
                                                   video_id)]]
    /\ UNCHANGED <<links, popular, history, likes, now, admin_config, files,
                   updater>>

\* write_json(likes_path, ...) of the three handlers and their response
LikesWrite(w) ==
    /\ calls[w].pc = "write_likes"
    /\ likes' = [likes EXCEPT ![get_user_data_path(calls[w].user)] =
                    write_json(@, calls[w].data)]
    /\ files' = [files EXCEPT !.likes[get_user_data_path(calls[w].user)] = "ok"]
    /\ calls' = [calls EXCEPT ![w] = NoCall]
    /\ last' = [op |-> calls[w].op, user |-> calls[w].user,
                status |-> calls[w].status, snapshot |-> calls[w].snapshot,
                data |-> calls[w].data,
                overwritten |-> likes[get_user_data_path(calls[w].user)]]
    /\ UNCHANGED <<links, popular, history, now, admin_config, updater>>

NextLikes ==
    \/ \E w \in Workers : ToggleLikeRead(w, Listener, 1)
    \/ \E w \in Workers : CreatePlaylistRead(w, Listener, "mix")
    \/ \E w \in Workers : AddSongRead(w, Listener, now, 1)
    \/ \E w \in Workers : LikesWrite(w)

SpecLikes == Init /\ [][NextLikes]_vars

\* C33: the last writer wins. After toggle_like, create_playlist or
\* add_song_to_playlist reported success, the likes/playlists document is
\* what the request made of the document it read, whatever another request
\* of the user wrote in between; so there is an interleaving of a
\* toggle_like and a create_playlist, both successful, after which the
\* document holds the effect of one of them only.
C33_LastWriterWins ==
    (last.op \in WritingOps /\ last.status \in {200, 201}) =>
        /\ likes[last.user] = last.data
        /\ last.op = "toggle_like" =>
               /\ last.data.playlists = last.snapshot.playlists
               /\ last.data.liked_songs # last.snapshot.liked_songs
        /\ last.op # "toggle_like" =>
               last.data.liked_songs = last.snapshot.liked_songs
        /\ last.op = "create_playlist" =>
               SubSeq(last.data.playlists, 1, Len(last.snapshot.playlists))
                   = last.snapshot.playlists

\* C33 witness: toggle_like(1) had written the liked song, and the
\* create_playlist that had read the document before that has now written
\* its playlist: both answered with success and the liked song is gone
C33_Witness ==
    /\ last.op = "create_playlist"
    /\ last.status = 201
    /\ last.snapshot = NoLikes
    /\ last.overwritten.liked_songs = {1}
    /\ last.overwritten.playlists = <<>>
    /\ likes[last.user].liked_songs = {}
    /\ Len(likes[last.user].playlists) = 1
    /\ \A w \in Workers : calls[w].pc = "idle"

---------------------------------------------------------------------------
(* SpecReader: get_recommendations on one thread, one read of LINKS_FILE   *)
(* per step, while another thread ingests an artist                        *)

\* get_recommendations up to the scoring loops: the user's documents are
\* read; a user without history and likes is answered from the feed
RecommendStart(w, u, limit, prov, liked_order) ==
    /\ calls[w].pc = "idle"
    /\ IF history[u] = <<>> /\ likes[u].liked_songs = {}
       THEN /\ last' = [op |-> "get_recommendations", user |-> u,
                        hist |-> history[u], liked |-> likes[u].liked_songs,
                        limit |-> limit, prov |-> prov,
                        liked_order |-> liked_order, seen |-> {links},
                        result |-> NewUserResult(popular, limit)]
            /\ UNCHANGED calls
       ELSE /\ last' = [op |-> "read_json", user |-> u]
            /\ calls' = [calls EXCEPT ![w] =
                            [pc |-> "score", user |-> u,
                             hist |-> history[u],
                             liked |-> likes[u].liked_songs,
                             limit |-> limit, prov |-> prov,
                             liked_order |-> liked_order,
                             i |-> 1, scores |-> <<>>, seen |-> {links}]]
    /\ UNCHANGED <<links, popular, history, likes, now, admin_config, files,
                   updater>>

\* one turn of the scoring loops: get_song_details reads LINKS_FILE and
\* the artists of the song it finds are scored
RecommendScore(w) ==
    /\ calls[w].pc = "score"
    /\ LET ids == HistoryIds(calls[w].hist) \o calls[w].liked_order
           i == calls[w].i
       IN  /\ i <= Len(ids)
           /\ \E all_songs \in Readings(w) :
                  calls' = [calls EXCEPT
                      ![w].scores =
                          ScoreIds(@, <<ids[i]>>, 1,
                                   IF i <= Len(calls[w].hist)
                                   THEN PlayWeight ELSE LikeWeight,
                                   all_songs, popular, calls[w].prov),
                      ![w].i = i + 1,
                      ![w].seen = @ \cup {links}]
    /\ UNCHANGED <<links, popular, history, likes, now, last, admin_config,
                   files, updater>>

\* get_recommendations after the scoring loops: the feed is returned when
\* no artist was scored, otherwise LINKS_FILE is read and scanned and the
\* list is topped up from the feed
RecommendScan(w) ==
    /\ calls[w].pc = "score"
    /\ calls[w].i > Len(calls[w].hist) + Len(calls[w].liked_order)
    /\ \E all_songs \in Readings(w) :
           last' = [op |-> "get_recommendations", user |-> calls[w].user,
                    hist |-> calls[w].hist, liked |-> calls[w].liked,
                    limit |-> calls[w].limit, prov |-> calls[w].prov,
                    liked_order |-> calls[w].liked_order,
                    seen |-> calls[w].seen \cup {links},
                    result |->
                        IF calls[w].scores = <<>>
                        THEN NoScoresResult(popular, calls[w].limit)
                        ELSE ScoredResult(
                                 calls[w].scores, all_songs, popular,
                                 Range(HistoryIds(calls[w].hist))
                                     \cup calls[w].liked,
                                 calls[w].limit)]
    /\ calls' = [calls EXCEPT ![w] = NoCall]
    /\ UNCHANGED <<links, popular, history, likes, now, admin_config, files,
                   updater>>

NextReader ==
    \/ LogPlay(Listener, 1)
    \/ \E artist_name \in {"Foo", "Bar"} :
           \E answer \in FewListings(artist_name) :
               IngestRead("t1", artist_name, answer)
    \/ WriteLinks("t1")
    \/ \E prov \in SongAnswers(VideoIds) :
           RecommendStart("t2", Listener, MaxLimit, prov, <<>>)
    \/ RecommendScore("t2")
    \/ RecommendScan("t2")

SpecReader == Init /\ [][NextReader]_vars

\* C36: the list get_recommendations returns is the list it would return
\* on one of the contents the Track Store had during the call, whatever
\* ingestion rewrites the Track Store file in the meantime.
C36_ResultOfOneContent ==
    last.op = "get_recommendations" =>
        \E all_songs \in last.seen :
            last.result = get_recommendations(
                              last.hist, last.liked, last.liked_order,
                              all_songs, popular, last.prov, last.limit).result

==========================================================================
